---------------------------- MODULE Spec2Model ----------------------------
(***************************************************************************)
(* Grapheme-cluster segmentation of unicode-segmentation (src/grapheme.rs):*)
(* the Graphemes forward/backward iterator, the pair classifier check_pair *)
(* and the resumable GraphemeCursor.                                       *)
(*                                                                         *)
(* A text is a sequence of code points.  One representative code point is  *)
(* taken per behaviour class of the category table; its UTF-8 width is the *)
(* width of the real code point, so every offset below is a byte offset.   *)
(***************************************************************************)
EXTENDS Integers, Sequences, FiniteSets, TLC

(***************************************************************************)
(* Bounds of the model.                                                    *)
(***************************************************************************)
\* longest text over the full code-point alphabet
MaxLen == 2
\* longest text over the regional-indicator alphabet
MaxRILen == 5
\* longest text over the emoji / ZWJ alphabet
MaxEmojiLen == 4
\* longest text over the control / Prepend alphabet
MaxCtlLen == 4
\* the lengths of the texts the cursor is driven over
MaxCurLen == 2
MaxCurRILen == 4
MaxCurEmojiLen == 3

(***************************************************************************)
(* Option<T>: None is the empty tuple, Some(x) the one-element tuple.      *)
(***************************************************************************)
None == << >>
Some(x) == << x >>
unwrap(o) == o[1]

(***************************************************************************)
(* Code points and the category table (tables::grapheme).                  *)
(*   CR U+000D, LF U+000A, CTL U+0001, ANY U+0061, EXT U+0300, ZWJ U+200D, *)
(*   RI U+1F1E6, PRE U+0600, SM U+0903, L U+1100, V U+1160, T U+11A8,      *)
(*   LV U+AC00, LVT U+AC01, EB U+1F385, EM U+1F3FB, EBG U+1F466,           *)
(*   GAZ U+2764.                                                           *)
(***************************************************************************)
Chars == {"CR", "LF", "CTL", "ANY", "EXT", "ZWJ", "RI", "PRE", "SM", "L", "V",
          "T", "LV", "LVT", "EB", "EM", "EBG", "GAZ"}

RIChars == {"RI", "ANY", "EXT", "PRE"}

EmojiChars == {"EB", "EBG", "EM", "EXT", "ZWJ", "GAZ", "ANY"}

CtlChars == {"CR", "LF", "CTL", "PRE", "EXT", "ANY"}

\* tables::grapheme::grapheme_category: CR and LF are GC_Control in this table
grapheme_category(ch) ==
    CASE ch \in {"CR", "LF", "CTL"} -> "GC_Control"
      [] ch = "ANY" -> "GC_Any"
      [] ch = "EXT" -> "GC_Extend"
      [] ch = "ZWJ" -> "GC_ZWJ"
      [] ch = "RI"  -> "GC_Regional_Indicator"
      [] ch = "PRE" -> "GC_Prepend"
      [] ch = "SM"  -> "GC_SpacingMark"
      [] ch = "L"   -> "GC_L"
      [] ch = "V"   -> "GC_V"
      [] ch = "T"   -> "GC_T"
      [] ch = "LV"  -> "GC_LV"
      [] ch = "LVT" -> "GC_LVT"
      [] ch = "EB"  -> "GC_E_Base"
      [] ch = "EM"  -> "GC_E_Modifier"
      [] ch = "EBG" -> "GC_E_Base_GAZ"
      [] ch = "GAZ" -> "GC_Glue_After_Zwj"

\* char::len_utf8 of the representative code point
len_utf8(ch) ==
    CASE ch \in {"CR", "LF", "CTL", "ANY"} -> 1
      [] ch \in {"UP", "DOT", "BANG", "SP", "CLOSE", "NUM", "COMMA"} -> 1
      [] ch \in {"EXT", "PRE"} -> 2
      [] ch \in {"SEP", "OLET", "FMT"} -> 2
      [] ch \in {"ZWJ", "SM", "L", "V", "T", "LV", "LVT", "GAZ"} -> 3
      [] ch \in {"RI", "EB", "EM", "EBG"} -> 4

(***************************************************************************)
(* &str as a sequence of code points, addressed by byte offsets.           *)
(***************************************************************************)
RECURSIVE width_upto(_, _)
\* the bytes the first k code points of s take
width_upto(s, k) == IF k = 0 THEN 0 ELSE len_utf8(s[k]) + width_upto(s, k - 1)

\* str::len: the length in bytes
str_len(s) == width_upto(s, Len(s))

\* byte offset of the k-th code point of s (k = Len(s) + 1 gives str_len(s))
byte_of(s, k) == width_upto(s, k - 1)

\* the code-point position whose byte offset is b (b must be a char boundary)
pos_of(s, b) == CHOOSE k \in 1..(Len(s) + 1) : byte_of(s, k) = b

is_char_boundary(s, b) == \E k \in 1..(Len(s) + 1) : byte_of(s, k) = b

\* &s[..b]
slice_to(s, b) == SubSeq(s, 1, pos_of(s, b) - 1)

\* &s[b..]
slice_from(s, b) == SubSeq(s, pos_of(s, b), Len(s))

\* s[b..].chars().next().unwrap()
char_at(s, b) == s[pos_of(s, b)]

RECURSIVE Reverse(_)
Reverse(q) == IF q = << >> THEN << >> ELSE Append(Reverse(Tail(q)), Head(q))

RECURSIVE Concat(_)
Concat(q) == IF q = << >> THEN << >> ELSE Head(q) \o Concat(Tail(q))

RECURSIVE ris_before(_, _)
\* s[..p-1].chars().rev().take_while(|c| category(c) == RI).count(), p a position
ris_before(s, p) ==
    IF p > 1 /\ grapheme_category(s[p - 1]) = "GC_Regional_Indicator"
    THEN 1 + ris_before(s, p - 1)
    ELSE 0

(***************************************************************************)
(* Graphemes (src/grapheme.rs:65-71).                                      *)
(***************************************************************************)
new_graphemes(s, is_extended) ==
    [string |-> s, extended |-> is_extended, cat |-> None, catb |-> None,
     regional_count_back |-> None]

\* a slip of the lower bound: the byte length instead of min(slen, 1)
size_hint_nomin(g) == << str_len(g.string), Some(str_len(g.string)) >>

\* Graphemes::size_hint
size_hint(g) ==
    LET slen == str_len(g.string)
    IN  << IF slen < 1 THEN slen ELSE 1, Some(slen) >>

(***************************************************************************)
(* Graphemes::next.  The for loop over char_indices is a recursion over    *)
(* the code-point position k; v holds the loop's locals and the cache      *)
(* self.cat.  Each arm yields the locals and whether the loop breaks.      *)
(***************************************************************************)
next_arm(g, k, v, cat, idx) ==
    LET ch == g.string[k]
        w == [v EXCEPT !.cat = cat, !.idx = idx, !.selfcat = None]
        cont(st) == [w EXCEPT !.state = st]
        brk_keep == [w EXCEPT !.brk = TRUE]
        brk_drop == [w EXCEPT !.take_curr = FALSE, !.brk = TRUE]
    IN
    IF v.state = "Emoji" /\ cat = "GC_Extend" THEN w                     \* GB10
    ELSE IF cat = "GC_Extend" THEN cont("FindExtend")                    \* GB9
    ELSE IF cat = "GC_SpacingMark" /\ g.extended THEN cont("FindExtend") \* GB9a
    ELSE IF cat = "GC_ZWJ" THEN cont("Zwj")                              \* GB9/GB11
    ELSE IF v.state = "Start" /\ ch = "CR" THEN
        LET slen == str_len(g.string)
            nidx == idx + 1
        IN  IF nidx # slen /\ char_at(g.string, nidx) = "LF"
            THEN [brk_keep EXCEPT !.idx = nidx]                          \* GB3
            ELSE brk_keep                                                \* GB4
    ELSE IF v.state \in {"Start", "Prepend"} THEN
        CASE cat = "GC_Control" ->                                       \* GB5
                [w EXCEPT !.take_curr = (v.state = "Start"), !.brk = TRUE]
          [] cat = "GC_L" -> cont("HangulL")
          [] cat \in {"GC_LV", "GC_V"} -> cont("HangulLV")
          [] cat \in {"GC_LVT", "GC_T"} -> cont("HangulLVT")
          [] cat = "GC_Prepend" /\ g.extended -> cont("Prepend")
          [] cat = "GC_Regional_Indicator" -> cont("Regional")
          [] cat \in {"GC_E_Base", "GC_E_Base_GAZ"} -> cont("Emoji")
          [] OTHER -> cont("FindExtend")
    ELSE IF v.state = "FindExtend" THEN brk_drop
    ELSE IF v.state = "HangulL" THEN                                     \* GB6
        CASE cat = "GC_L" -> w
          [] cat \in {"GC_LV", "GC_V"} -> cont("HangulLV")
          [] cat = "GC_LVT" -> cont("HangulLVT")
          [] OTHER -> brk_drop
    ELSE IF v.state = "HangulLV" THEN                                    \* GB7
        CASE cat = "GC_V" -> w
          [] cat = "GC_T" -> cont("HangulLVT")
          [] OTHER -> brk_drop
    ELSE IF v.state = "HangulLVT" THEN                                   \* GB8
        CASE cat = "GC_T" -> w
          [] OTHER -> brk_drop
    ELSE IF v.state = "Regional" THEN                                    \* GB12/GB13
        CASE cat = "GC_Regional_Indicator" -> cont("FindExtend")
          [] OTHER -> brk_drop
    ELSE IF v.state = "Emoji" THEN                                       \* GB10
        CASE cat = "GC_E_Modifier" -> w
          [] OTHER -> brk_drop
    ELSE IF v.state = "Zwj" THEN                                         \* GB11
        CASE cat = "GC_Glue_After_Zwj" -> w
          [] cat = "GC_E_Base_GAZ" -> cont("Emoji")
          [] OTHER -> brk_drop
    ELSE [w EXCEPT !.state = "unreachable", !.brk = TRUE]

\* one iteration of the for loop of next: cache lookup, then the state machine
next_body(g, k, v) ==
    LET cat == IF v.selfcat = None THEN grapheme_category(g.string[k])
               ELSE unwrap(v.selfcat)
    IN  next_arm(g, k, v, cat, byte_of(g.string, k))

RECURSIVE next_loop(_, _, _)
next_loop(g, k, v) ==
    IF k > Len(g.string) \/ v.brk THEN v
    ELSE next_loop(g, k + 1, next_body(g, k, v))

\* the locals of next after its loop
next_locals(g) ==
    next_loop(g, 1, [state |-> "Start", cat |-> "GC_Any", idx |-> 0,
                     take_curr |-> TRUE, brk |-> FALSE, selfcat |-> g.cat])

\* a slip of the cut: the current code point is never taken
next_idx_untaken(g, v) == v.idx

\* the byte index at which next cuts the string, v the locals after the loop
next_idx(g, v) ==
    IF v.take_curr THEN v.idx + len_utf8(char_at(g.string, v.idx)) ELSE v.idx

\* a slip of the cache: the initial value of the local cat is stored
next_cat_stale(v) == IF v.take_curr THEN None ELSE Some("GC_Any")

\* self.cat when next returns, v the locals after the loop
next_cat(v) == IF v.take_curr THEN None ELSE Some(v.cat)

\* Graphemes::next: [ret |-> Option<&str>, g |-> the iterator afterwards]
next(g) ==
    IF str_len(g.string) = 0 THEN [ret |-> None, g |-> g]
    ELSE LET v == next_locals(g)
             idx == next_idx(g, v)
         IN  [ret |-> Some(slice_to(g.string, idx)),
              g |-> [g EXCEPT !.regional_count_back = None,
                              !.catb = None,
                              !.cat = next_cat(v),
                              !.string = slice_from(g.string, idx)]]


(***************************************************************************)
(* Graphemes::next_back.  The loop runs over char_indices().rev(): k is    *)
(* the code-point position, from the last one down.  v holds the locals,   *)
(* the cache self.catb and self.regional_count_back.                       *)
(***************************************************************************)
RECURSIVE emoji_scan(_, _, _)
\* the inner scan of the Emoji arm over self.string[..previdx], p the position
\* scanned and ebg_idx the Option set by an E_Base_GAZ: the idx to break 'outer
\* with, or the ebg_idx the scan ended with
emoji_scan(s, p, ebg_idx) ==
    IF p < 1 THEN [outer |-> FALSE, ebg_idx |-> ebg_idx]
    ELSE LET c == grapheme_category(s[p])
             startidx == byte_of(s, p)
         IN  IF ebg_idx = None /\ c = "GC_Extend" THEN emoji_scan(s, p - 1, ebg_idx)
             ELSE IF ebg_idx = None /\ c = "GC_E_Base"                   \* GB10
                  THEN [outer |-> TRUE, idx |-> startidx]
             ELSE IF ebg_idx = None /\ c = "GC_E_Base_GAZ"               \* GB10
                  THEN emoji_scan(s, p - 1, Some(startidx))
             ELSE IF ebg_idx # None /\ c = "GC_ZWJ"                      \* GB11
                  THEN [outer |-> TRUE, idx |-> startidx]
             ELSE [outer |-> FALSE, ebg_idx |-> ebg_idx]

\* a slip of the cache update: the count is stored without the decrement
checked_sub_kept(count) == Some(count)

\* count.checked_sub(1)
checked_sub(count) == IF count >= 1 THEN Some(count - 1) ELSE None

next_back_arm(g, k, v, cat, previdx, idx) ==
    LET ch == g.string[k]
        w == [v EXCEPT !.cat = cat, !.previdx = previdx, !.idx = idx, !.selfcatb = None]
        cont(st) == [w EXCEPT !.state = st]
        brk_keep == [w EXCEPT !.brk = TRUE]
        brk_drop == [w EXCEPT !.take_curr = FALSE, !.brk = TRUE]
    IN
    IF v.state = "Start" /\ ch = "LF" THEN
        IF idx > 0 /\ g.string[k - 1] = "CR"
        THEN [brk_keep EXCEPT !.idx = idx - 1]                           \* GB3
        ELSE brk_keep                                                    \* GB4
    ELSE IF v.state \in {"Start", "FindExtend"} THEN
        CASE cat = "GC_Extend" -> cont("FindExtend")
          [] cat = "GC_SpacingMark" /\ g.extended -> cont("FindExtend")
          [] cat = "GC_ZWJ" -> cont("FindExtend")
          [] cat = "GC_E_Modifier" -> cont("Emoji")
          [] cat \in {"GC_Glue_After_Zwj", "GC_E_Base_GAZ"} -> cont("Zwj")
          [] cat \in {"GC_L", "GC_LV", "GC_LVT"} -> cont("HangulL")
          [] cat = "GC_V" -> cont("HangulLV")
          [] cat = "GC_T" -> cont("HangulLVT")
          [] cat = "GC_Regional_Indicator" -> cont("Regional")
          [] cat = "GC_Control" ->
                [w EXCEPT !.take_curr = (v.state = "Start"), !.brk = TRUE]
          [] OTHER -> brk_keep
    ELSE IF v.state = "HangulL" THEN
        CASE cat = "GC_L" -> w
          [] OTHER -> brk_drop
    ELSE IF v.state = "HangulLV" THEN
        CASE cat = "GC_V" -> w
          [] cat \in {"GC_L", "GC_LV"} -> cont("HangulL")
          [] OTHER -> brk_drop
    ELSE IF v.state = "HangulLVT" THEN
        CASE cat = "GC_T" -> w
          [] cat = "GC_V" -> cont("HangulLV")
          [] cat \in {"GC_LV", "GC_LVT"} -> cont("HangulL")
          [] OTHER -> brk_drop
    ELSE IF v.state = "Regional" THEN                                    \* GB12/GB13
        LET count == IF v.rcb # None THEN unwrap(v.rcb)
                     ELSE ris_before(g.string, pos_of(g.string, previdx))
            rcb == checked_sub(count)
        IN  IF count % 2 = 0
            THEN [brk_drop EXCEPT !.rcb = rcb]
            ELSE [w EXCEPT !.rcb = rcb]
    ELSE IF v.state = "Emoji" THEN
        LET r == emoji_scan(g.string, pos_of(g.string, previdx) - 1, None)
        IN  IF r.outer THEN [brk_keep EXCEPT !.idx = r.idx]
            ELSE IF r.ebg_idx # None THEN [brk_keep EXCEPT !.idx = unwrap(r.ebg_idx)]
            ELSE brk_drop
    ELSE IF v.state = "Zwj" THEN
        CASE cat = "GC_ZWJ" -> cont("FindExtend")                        \* GB11
          [] OTHER -> brk_drop
    ELSE [w EXCEPT !.state = "unreachable", !.brk = TRUE]

\* one iteration of the loop of next_back
next_back_body(g, k, v) ==
    LET cat == IF v.selfcatb = None THEN grapheme_category(g.string[k])
               ELSE unwrap(v.selfcatb)
    IN  next_back_arm(g, k, v, cat, v.idx, byte_of(g.string, k))

RECURSIVE next_back_loop(_, _, _)
next_back_loop(g, k, v) ==
    IF k < 1 \/ v.brk THEN v
    ELSE next_back_loop(g, k - 1, next_back_body(g, k, v))

\* a slip of rule GB9b: the scan over the preceding code points is left out
prepend_scan_none(s, p, r) == r

\* a slip of rule GB9b: the scan runs but leaves a category of its own in catb
prepend_scan_miscached(s, p, r) == [r EXCEPT !.catb = Some("GC_Any")]

RECURSIVE prepend_scan(_, _, _)
\* rule GB9b after the loop: p is the position scanned, leftwards, from the
\* cluster start; yields the new idx and the catb the scan leaves
prepend_scan(s, p, r) ==
    IF p < 1 THEN r
    ELSE LET c == grapheme_category(s[p])
         IN  IF c = "GC_Prepend"
             THEN prepend_scan(s, p - 1, [r EXCEPT !.idx = byte_of(s, p)])
             ELSE [r EXCEPT !.catb = Some(c)]

\* a slip of rule GB9b: Prepend is absorbed whatever the category left in cat
gb9b_applies_any(g, v) == g.extended

\* the test guarding rule GB9b after the loop of next_back
gb9b_applies(g, v) == g.extended /\ v.cat # "GC_Control"

\* idx and self.catb when next_back returns, v the locals after the loop
next_back_cut(g, v) ==
    LET r0 == IF v.take_curr THEN [idx |-> v.idx, catb |-> None]
              ELSE [idx |-> v.previdx, catb |-> Some(v.cat)]
        r1 == IF gb9b_applies(g, v)
              THEN prepend_scan(g.string, pos_of(g.string, r0.idx) - 1, r0)
              ELSE r0
    IN  [rcb |-> v.rcb, idx |-> r1.idx, catb |-> r1.catb]

\* the locals of next_back after its loop
next_back_vars(g) ==
    next_back_loop(g, Len(g.string),
                   [state |-> "Start", cat |-> "GC_Any", idx |-> str_len(g.string),
                    previdx |-> str_len(g.string), take_curr |-> TRUE, brk |-> FALSE,
                    selfcatb |-> g.catb, rcb |-> g.regional_count_back])

\* the locals of next_back after its loop and after rule GB9b
next_back_locals(g) == next_back_cut(g, next_back_vars(g))

\* a slip of the cut: the slice is returned but left in the string
next_back_ret_unshrunk(g, r) ==
    [ret |-> Some(slice_from(g.string, r.idx)),
     g |-> [g EXCEPT !.cat = None, !.catb = r.catb, !.regional_count_back = r.rcb]]

\* the slice next_back returns and the iterator it leaves, r the locals
next_back_ret(g, r) ==
    [ret |-> Some(slice_from(g.string, r.idx)),
     g |-> [g EXCEPT !.cat = None,
                     !.catb = r.catb,
                     !.regional_count_back = r.rcb,
                     !.string = slice_to(g.string, r.idx)]]

\* Graphemes::next_back: [ret |-> Option<&str>, g |-> the iterator afterwards]
next_back(g) ==
    IF str_len(g.string) = 0 THEN [ret |-> None, g |-> g]
    ELSE next_back_ret(g, next_back_locals(g))

(***************************************************************************)
(* GraphemeCursor (src/grapheme.rs:451-460).  A call returns the cursor    *)
(* afterwards (c) and its result (r): Ok(v), Err(e), or a panic.           *)
(***************************************************************************)
Ok(v) == [kind |-> "Ok", val |-> v]
Err(e) == [kind |-> "Err", val |-> e]
Panic(m) == [kind |-> "panic", val |-> m]

\* GraphemeIncomplete
PreContext(k) == << "PreContext", k >>
PrevChunk == << "PrevChunk" >>
NextChunk == << "NextChunk" >>
InvalidOffset == << "InvalidOffset" >>

check_pair(before, after) ==
    CASE before = "GC_Control" /\ after = "GC_Control" -> "CheckCrlf"    \* GB3
      [] before = "GC_Control" -> "Break"                                \* GB4
      [] after = "GC_Control" -> "Break"                                 \* GB5
      [] before = "GC_L" /\ after \in {"GC_L", "GC_V", "GC_LV", "GC_LVT"} -> "NotBreak"
      [] before = "GC_LV" /\ after \in {"GC_V", "GC_T"} -> "NotBreak"    \* GB7
      [] before = "GC_V" /\ after \in {"GC_V", "GC_T"} -> "NotBreak"     \* GB7
      [] before = "GC_LVT" /\ after = "GC_T" -> "NotBreak"               \* GB8
      [] before = "GC_T" /\ after = "GC_T" -> "NotBreak"                 \* GB8
      [] after = "GC_Extend" -> "NotBreak"                               \* GB9
      [] after = "GC_ZWJ" -> "NotBreak"                                  \* GB9
      [] after = "GC_SpacingMark" -> "Extended"                          \* GB9a
      [] before = "GC_Prepend" -> "Extended"                             \* GB9a
      [] before = "GC_E_Base" /\ after = "GC_E_Modifier" -> "NotBreak"   \* GB10
      [] before = "GC_E_Base_GAZ" /\ after = "GC_E_Modifier" -> "NotBreak"
      [] before = "GC_Extend" /\ after = "GC_E_Modifier" -> "Emoji"      \* GB10
      [] before = "GC_ZWJ" /\ after = "GC_Glue_After_Zwj" -> "NotBreak"  \* GB11
      [] before = "GC_Regional_Indicator" /\ after = "GC_Regional_Indicator"
            -> "Regional"                                                \* GB12, GB13
      [] OTHER -> "Break"                                                \* GB999

\* a slip of the initial state: only offset 0 is taken for a boundary
initial_state_zero(offset, len) == IF offset = 0 THEN "Break" ELSE "Unknown"

\* the state GraphemeCursor::new and set_cursor give an offset
initial_state(offset, len) == IF offset = 0 \/ offset = len THEN "Break" ELSE "Unknown"

\* GraphemeCursor::new
new(offset, len, is_extended) ==
    [offset |-> offset, len |-> len, state |-> initial_state(offset, len),
     is_extended |-> is_extended, cat |-> None, catb |-> None,
     pre_context_offset |-> None, ris_count |-> None]

\* GraphemeCursor::set_cursor
set_cursor(c, offset) ==
    IF offset # c.offset
    THEN [c EXCEPT !.offset = offset, !.state = initial_state(offset, c.len)]
    ELSE c

\* GraphemeCursor::decide
decide(c, is_break) == [c EXCEPT !.state = IF is_break THEN "Break" ELSE "NotBreak"]

\* GraphemeCursor::decision
decision(c, is_break) == [c |-> decide(c, is_break), r |-> Ok(is_break)]

\* GraphemeCursor::is_boundary_result
is_boundary_result(c) ==
    IF c.state = "Break" THEN Ok(TRUE)
    ELSE IF c.state = "NotBreak" THEN Ok(FALSE)
    ELSE IF c.pre_context_offset # None
         THEN Err(PreContext(unwrap(c.pre_context_offset)))
    ELSE Panic("inconsistent state")

\* a slip of handle_regional: a break is decided without counting the RIs
handle_regional_uncounted(c, chunk, chunk_start) == decide(c, TRUE)

\* GraphemeCursor::handle_regional
handle_regional(c, chunk, chunk_start) ==
    LET seen == ris_before(chunk, Len(chunk) + 1)
        ris_count == (IF c.ris_count = None THEN 0 ELSE unwrap(c.ris_count)) + seen
        c1 == [c EXCEPT !.ris_count = Some(ris_count)]
    IN  IF seen < Len(chunk) THEN decide(c1, ris_count % 2 = 0)
        ELSE IF chunk_start = 0 THEN decide(c1, ris_count % 2 = 0)
        ELSE [c1 EXCEPT !.pre_context_offset = Some(chunk_start)]

RECURSIVE emoji_lookback(_, _)
\* the loop of handle_emoji over chunk.chars().rev(), p the position scanned
emoji_lookback(chunk, p) ==
    IF p < 1 THEN "exhausted"
    ELSE LET c == grapheme_category(chunk[p])
         IN  IF c = "GC_Extend" THEN emoji_lookback(chunk, p - 1)
             ELSE IF c \in {"GC_E_Base", "GC_E_Base_GAZ"} THEN "base"
             ELSE "other"

\* a slip of handle_emoji: on exhaustion the end of the chunk is requested again
handle_emoji_end_request(c, chunk, chunk_start) ==
    LET found == emoji_lookback(chunk, Len(chunk))
    IN  IF found = "base" THEN decide(c, FALSE)
        ELSE IF found = "other" THEN decide(c, TRUE)
        ELSE IF chunk_start = 0 THEN decide(c, TRUE)
        ELSE [c EXCEPT !.pre_context_offset = Some(chunk_start + str_len(chunk))]

\* GraphemeCursor::handle_emoji
handle_emoji(c, chunk, chunk_start) ==
    LET found == emoji_lookback(chunk, Len(chunk))
    IN  IF found = "base" THEN decide(c, FALSE)
        ELSE IF found = "other" THEN decide(c, TRUE)
        ELSE IF chunk_start = 0 THEN decide(c, TRUE)
        ELSE [c EXCEPT !.pre_context_offset = Some(chunk_start)]

\* GraphemeCursor::provide_context
provide_context(c, chunk, chunk_start) ==
    IF c.pre_context_offset = None
       \/ chunk_start + str_len(chunk) # unwrap(c.pre_context_offset)
    THEN [c |-> c, r |-> Panic("assertion failed")]
    ELSE LET c1 == [c EXCEPT !.pre_context_offset = None]
             at_offset == c1.is_extended /\ chunk_start + str_len(chunk) = c1.offset
         IN  IF at_offset /\ chunk = << >> THEN [c |-> c1, r |-> Panic("unwrap on None")]
             ELSE IF at_offset /\ grapheme_category(chunk[Len(chunk)]) = "GC_Prepend"
                  THEN [c |-> decide(c1, FALSE), r |-> Ok("unit")]       \* GB9b
             ELSE IF c1.state = "CheckCrlf" THEN
                  IF chunk = << >> THEN [c |-> c1, r |-> Panic("index out of bounds")]
                  ELSE [c |-> decide(c1, chunk[Len(chunk)] # "CR"), r |-> Ok("unit")]
             ELSE IF c1.state = "Regional"
                  THEN [c |-> handle_regional(c1, chunk, chunk_start), r |-> Ok("unit")]
             ELSE IF c1.state = "Emoji"
                  THEN [c |-> handle_emoji(c1, chunk, chunk_start), r |-> Ok("unit")]
             ELSE [c |-> c1, r |-> Panic("invalid state")]

\* the match on check_pair at the end of is_boundary; c holds both categories.
\* The offset may lie inside a code point: the CheckCrlf arm reads bytes, the
\* Regional and Emoji arms slice the chunk at the offset
is_boundary_pair(c, chunk, chunk_start) ==
    LET offset_in_chunk == c.offset - chunk_start
        on_boundary == is_char_boundary(chunk, offset_in_chunk)
        p == pos_of(chunk, offset_in_chunk)
        pair == check_pair(unwrap(c.cat), unwrap(c.catb))
    IN  CASE pair = "NotBreak" -> decision(c, FALSE)
          [] pair = "Break" -> decision(c, TRUE)
          [] pair = "Extended" -> decision(c, c.is_extended)
          [] pair = "CheckCrlf" ->
                IF ~on_boundary THEN decision(c, TRUE)
                ELSE IF chunk[p] # "LF" THEN decision(c, TRUE)
                ELSE IF c.offset > chunk_start THEN decision(c, chunk[p - 1] # "CR")
                ELSE [c |-> [c EXCEPT !.state = "CheckCrlf"],
                      r |-> Err(PreContext(chunk_start))]
          [] pair = "Regional" ->
                IF ~on_boundary THEN [c |-> c, r |-> Panic("not a char boundary")]
                ELSE LET c1 == handle_regional(c, SubSeq(chunk, 1, p - 1), chunk_start)
                     IN  [c |-> c1, r |-> is_boundary_result(c1)]
          [] pair = "Emoji" ->
                IF ~on_boundary THEN [c |-> c, r |-> Panic("not a char boundary")]
                ELSE LET c1 == handle_emoji(c, SubSeq(chunk, 1, p - 1), chunk_start)
                     IN  [c |-> c1, r |-> is_boundary_result(c1)]

\* a slip of the order: the pending request is answered before the chunk is checked
is_boundary_checks_swapped(c, chunk, chunk_start) ==
    IF c.pre_context_offset # None
    THEN Some(Err(PreContext(unwrap(c.pre_context_offset))))
    ELSE IF c.offset < chunk_start \/ c.offset >= chunk_start + str_len(chunk)
         THEN Some(Err(InvalidOffset))
    ELSE None

\* the early returns of is_boundary on an undecided cursor: the error, if any
is_boundary_checks(c, chunk, chunk_start) ==
    IF c.offset < chunk_start \/ c.offset >= chunk_start + str_len(chunk)
    THEN Some(Err(InvalidOffset))
    ELSE IF c.pre_context_offset # None
         THEN Some(Err(PreContext(unwrap(c.pre_context_offset))))
    ELSE None

\* GraphemeCursor::is_boundary.  The chunk is sliced at the offset only where a
\* category is not cached yet, and in the Regional and Emoji arms of the match
is_boundary(c, chunk, chunk_start) ==
    IF c.state = "Break" THEN [c |-> c, r |-> Ok(TRUE)]
    ELSE IF c.state = "NotBreak" THEN [c |-> c, r |-> Ok(FALSE)]
    ELSE IF is_boundary_checks(c, chunk, chunk_start) # None
         THEN [c |-> c, r |-> unwrap(is_boundary_checks(c, chunk, chunk_start))]
    ELSE
    LET offset_in_chunk == c.offset - chunk_start
        on_boundary == is_char_boundary(chunk, offset_in_chunk)
        p == pos_of(chunk, offset_in_chunk)
        c1 == IF c.catb = None
              THEN [c EXCEPT !.catb = Some(grapheme_category(chunk[p]))]
              ELSE c
    IN  IF c.catb = None /\ ~on_boundary
        THEN [c |-> c, r |-> Panic("not a char boundary")]
        ELSE IF c1.offset = chunk_start THEN
            LET catb == unwrap(c1.catb)
                st == CASE catb = "GC_Control" ->
                              IF chunk[p] = "LF" THEN "CheckCrlf" ELSE c1.state
                        [] catb = "GC_Regional_Indicator" -> "Regional"
                        [] catb = "GC_E_Modifier" -> "Emoji"
                        [] OTHER -> c1.state
            IN  [c |-> [c1 EXCEPT !.state = st, !.pre_context_offset = Some(chunk_start)],
                 r |-> Err(PreContext(chunk_start))]
        ELSE IF c1.cat = None /\ ~on_boundary
        THEN [c |-> c1, r |-> Panic("not a char boundary")]
        ELSE
            LET c2 == IF c1.cat = None
                      THEN [c1 EXCEPT !.cat = Some(grapheme_category(chunk[p - 1]))]
                      ELSE c1
            IN  is_boundary_pair(c2, chunk, chunk_start)

RECURSIVE next_boundary_loop(_, _, _)
\* the loop of next_boundary
next_boundary_loop(c, chunk, chunk_start) ==
    IF c.offset < chunk_start \/ c.offset >= chunk_start + str_len(chunk)
       \/ ~is_char_boundary(chunk, c.offset - chunk_start)
    THEN [c |-> c, r |-> Panic("chunk does not hold the offset")]
    ELSE
    LET ch == char_at(chunk, c.offset - chunk_start)
        cat == c.catb
        c1 == [c EXCEPT !.offset = c.offset + len_utf8(ch),
                        !.cat = cat,
                        !.catb = None,
                        !.state = "Unknown",
                        !.ris_count =
                            IF c.ris_count # None /\ cat # None
                            THEN IF unwrap(cat) = "GC_Regional_Indicator"
                                 THEN Some(unwrap(c.ris_count) + 1)
                                 ELSE Some(0)
                            ELSE c.ris_count]
    IN  IF c1.offset # c1.len /\ c1.offset >= chunk_start + str_len(chunk)
        THEN [c |-> c1, r |-> Err(NextChunk)]
        ELSE LET c2 == IF c1.offset = c1.len THEN decide(c1, TRUE) ELSE c1
                 b == is_boundary(c2, chunk, chunk_start)
             IN  IF b.r.kind # "Ok" THEN b
                 ELSE IF b.r.val THEN [c |-> b.c, r |-> Ok(Some(b.c.offset))]
                 ELSE next_boundary_loop(b.c, chunk, chunk_start)

\* a slip of next_boundary: the loop is entered without the test for the end
next_boundary_unchecked(c, chunk, chunk_start) == next_boundary_loop(c, chunk, chunk_start)

\* GraphemeCursor::next_boundary
next_boundary(c, chunk, chunk_start) ==
    IF c.offset = c.len THEN [c |-> c, r |-> Ok(None)]
    ELSE next_boundary_loop(c, chunk, chunk_start)

RECURSIVE prev_boundary_loop(_, _, _)
\* the loop of prev_boundary
prev_boundary_loop(c, chunk, chunk_start) ==
    IF c.offset = chunk_start THEN [c |-> c, r |-> Err(PrevChunk)]
    ELSE IF c.offset < chunk_start \/ c.offset > chunk_start + str_len(chunk)
            \/ ~is_char_boundary(chunk, c.offset - chunk_start)
    THEN [c |-> c, r |-> Panic("chunk does not hold the offset")]
    ELSE
    LET ch == chunk[pos_of(chunk, c.offset - chunk_start) - 1]
        c1 == [c EXCEPT !.offset = c.offset - len_utf8(ch),
                        !.catb = c.cat,
                        !.cat = None,
                        !.state = "Unknown",
                        !.ris_count =
                            IF c.ris_count # None
                            THEN IF unwrap(c.ris_count) > 0
                                 THEN Some(unwrap(c.ris_count) - 1)
                                 ELSE None
                            ELSE c.ris_count]
        c2 == IF c1.offset = 0 THEN decide(c1, TRUE) ELSE c1
        b == is_boundary(c2, chunk, chunk_start)
    IN  IF b.r.kind # "Ok" THEN b
        ELSE IF b.r.val THEN [c |-> b.c, r |-> Ok(Some(b.c.offset))]
        ELSE prev_boundary_loop(b.c, chunk, chunk_start)

\* GraphemeCursor::prev_boundary
prev_boundary(c, chunk, chunk_start) ==
    IF c.offset = 0 THEN [c |-> c, r |-> Ok(None)]
    ELSE prev_boundary_loop(c, chunk, chunk_start)

(***************************************************************************)
(* State.                                                                  *)
(***************************************************************************)
VARIABLES
    S,          \* the text under segmentation
    ext,        \* the mode: TRUE extended, FALSE legacy
    it,         \* the Graphemes iterator
    drive,      \* which end the iterator is driven from: "fwd" or "bwd"
    front,      \* the slices next has yielded, in order
    back,       \* the slices next_back has yielded, in order
    last,       \* the last iterator call and what it returned
    task,       \* what the caller of the cursor does: "next", "prev" or "is"
    cuts,       \* the chunking of S: the positions at which a new chunk starts
    ck,         \* the chunk the caller passes: positions lo..hi of S
    cur,        \* the GraphemeCursor
    res,        \* the result of the last cursor call
    outs,       \* the offsets the boundary calls have returned, in order
    pend        \* the caller's next step: "call", "provide", "done", "panic", "stuck"

itvars == << it, drive, front, back, last >>
curvars == << task, cuts, ck, cur, res, outs, pend >>
vars == << S, ext, it, drive, front, back, last, task, cuts, ck, cur, res, outs, pend >>

Texts(A, n) == UNION {[1..m -> A] : m \in 0..n}

AllTexts == Texts(Chars, MaxLen) \cup Texts(RIChars, MaxRILen)
            \cup Texts(EmojiChars, MaxEmojiLen) \cup Texts(CtlChars, MaxCtlLen)

\* the code points of the regional-indicator texts the cursor is driven over
CurRIChars == {"RI", "ANY", "EXT"}

\* the code points of the emoji texts the cursor is driven over
CurEmojiChars == {"EB", "EBG", "EM", "EXT", "ZWJ", "ANY"}

CursorTexts == Texts(Chars, MaxCurLen) \cup Texts(CurRIChars, MaxCurRILen)
               \cup Texts(CurEmojiChars, MaxCurEmojiLen)

(***************************************************************************)
(* The iterator: a forward pass over the text with graphemes(S, ext), then *)
(* a backward pass with graphemes(S, ext).rev().                           *)
(***************************************************************************)
NoCursor ==
    /\ task = "none"
    /\ cuts = {}
    /\ ck = [lo |-> 1, hi |-> 0]
    /\ cur = new(0, 0, FALSE)
    /\ res = Ok(None)
    /\ outs = << >>
    /\ pend = "done"

Init ==
    /\ S \in AllTexts
    /\ ext \in BOOLEAN
    /\ it = new_graphemes(S, ext)
    /\ drive = "fwd"
    /\ front = << >>
    /\ back = << >>
    /\ last = [op |-> "new", ret |-> None]
    /\ NoCursor

\* one call of Graphemes::next on the forward-driven iterator
CallNext ==
    /\ drive = "fwd"
    /\ last.op = "new" \/ last.ret # None
    /\ \E r \in {next(it)} :
           /\ it' = r.g
           /\ front' = IF r.ret = None THEN front ELSE Append(front, unwrap(r.ret))
           /\ last' = [op |-> "next", ret |-> r.ret]
    /\ UNCHANGED << S, ext, drive, back >>
    /\ UNCHANGED curvars

\* graphemes(S, ext).rev(): a second iterator over the same text, driven backward
NewGraphemesRev ==
    /\ drive = "fwd"
    /\ last.op = "next" /\ last.ret = None
    /\ it' = new_graphemes(S, ext)
    /\ drive' = "bwd"
    /\ last' = [op |-> "new", ret |-> None]
    /\ UNCHANGED << S, ext, front, back >>
    /\ UNCHANGED curvars

\* one call of Graphemes::next_back on the backward-driven iterator
CallNextBack ==
    /\ drive = "bwd"
    /\ last.op = "new" \/ last.ret # None
    /\ \E r \in {next_back(it)} :
           /\ it' = r.g
           /\ back' = IF r.ret = None THEN back ELSE Append(back, unwrap(r.ret))
           /\ last' = [op |-> "next_back", ret |-> r.ret]
    /\ UNCHANGED << S, ext, drive, front >>
    /\ UNCHANGED curvars

Next == CallNext \/ NewGraphemesRev \/ CallNextBack

Spec == Init /\ [][Next]_vars

(***************************************************************************)
(* The cursor, driven over a chunked text.  The caller holds the text cut  *)
(* into consecutive non-empty chunks and passes the cursor one chunk at a  *)
(* time: on Err(NextChunk) / Err(PrevChunk) it passes the neighbouring     *)
(* chunk, on Err(PreContext(k)) it calls provide_context with the chunk    *)
(* that ends at k and calls again.                                         *)
(***************************************************************************)
Max(A) == CHOOSE x \in A : \A y \in A : y <= x
Min(A) == CHOOSE x \in A : \A y \in A : x <= y

\* the chunk of the chunking that holds position p of s
chunk_of(s, cs, p) ==
    [lo |-> Max({1} \cup {c \in cs : c <= p}),
     hi |-> Min({Len(s) + 1} \cup {c \in cs : c > p}) - 1]

\* the chunk as the caller passes it: the slice and its start offset
chunk_str(s, k) == SubSeq(s, k.lo, k.hi)
chunk_start_of(s, k) == byte_of(s, k.lo)

NoIterator ==
    /\ it = new_graphemes(S, ext)
    /\ drive = "none"
    /\ front = << >>
    /\ back = << >>
    /\ last = [op |-> "new", ret |-> None]

InitCursor ==
    /\ S \in CursorTexts
    /\ ext \in BOOLEAN
    /\ NoIterator
    /\ cuts \in SUBSET (2..Len(S))
    /\ res = Ok(None)
    /\ outs = << >>
    /\ pend = "call"
    /\ \/ /\ task = "next"
          /\ cur = new(0, str_len(S), ext)
          /\ ck = chunk_of(S, cuts, 1)
       \/ /\ task = "prev"
          /\ cur = new(str_len(S), str_len(S), ext)
          /\ ck = chunk_of(S, cuts, IF S = << >> THEN 1 ELSE Len(S))
       \/ /\ task = "is"
          /\ \E p \in 1..Len(S) :
                /\ cur = new(byte_of(S, p), str_len(S), ext)
                /\ ck = chunk_of(S, cuts, p)

\* what the caller does after a result of next_boundary / prev_boundary / is_boundary
pend_after(r) ==
    IF r.kind = "panic" THEN "panic"
    ELSE IF r.kind = "Ok" THEN (IF r.val = None THEN "done" ELSE "call")
    ELSE IF r.val[1] = "PreContext" THEN "provide"
    ELSE IF r.val[1] = "InvalidOffset" THEN "stuck"
    ELSE "call"

\* one call of next_boundary; on Err(NextChunk) the caller turns to the following chunk
CallNextBoundary ==
    /\ task = "next" /\ pend = "call"
    /\ LET b == next_boundary(cur, chunk_str(S, ck), chunk_start_of(S, ck))
       IN  /\ cur' = b.c
           /\ res' = b.r
           /\ pend' = pend_after(b.r)
           /\ outs' = IF b.r.kind = "Ok" /\ b.r.val # None
                      THEN Append(outs, unwrap(b.r.val)) ELSE outs
           /\ ck' = IF b.r = Err(NextChunk) THEN chunk_of(S, cuts, ck.hi + 1) ELSE ck
    /\ UNCHANGED << S, ext, task, cuts >>
    /\ UNCHANGED itvars

\* one call of prev_boundary; on Err(PrevChunk) the caller turns to the preceding chunk
CallPrevBoundary ==
    /\ task = "prev" /\ pend = "call"
    /\ LET b == prev_boundary(cur, chunk_str(S, ck), chunk_start_of(S, ck))
       IN  /\ cur' = b.c
           /\ res' = b.r
           /\ pend' = pend_after(b.r)
           /\ outs' = IF b.r.kind = "Ok" /\ b.r.val # None
                      THEN Append(outs, unwrap(b.r.val)) ELSE outs
           /\ ck' = IF b.r = Err(PrevChunk) THEN chunk_of(S, cuts, ck.lo - 1) ELSE ck
    /\ UNCHANGED << S, ext, task, cuts >>
    /\ UNCHANGED itvars

\* one call of is_boundary on the chunk that holds the cursor
CallIsBoundary ==
    /\ task = "is" /\ pend = "call"
    /\ LET b == is_boundary(cur, chunk_str(S, ck), chunk_start_of(S, ck))
       IN  /\ pend' = IF b.r.kind = "Ok" THEN "done" ELSE pend_after(b.r)
           /\ cur' = b.c
           /\ res' = b.r
    /\ UNCHANGED << S, ext, task, cuts, ck, outs >>
    /\ UNCHANGED itvars

\* provide_context with the chunk of the chunking that ends at the requested offset
CallProvideContext ==
    /\ pend = "provide"
    /\ LET k == res.val[2]
           pre == chunk_of(S, cuts, pos_of(S, k) - 1)
           b == provide_context(cur, chunk_str(S, pre), chunk_start_of(S, pre))
       IN  /\ pend' = IF b.r.kind = "panic" THEN "panic" ELSE "call"
           /\ cur' = b.c
           /\ res' = [b.r EXCEPT !.val = IF b.r.kind = "Ok" THEN << "provided", k >> ELSE @]
    /\ UNCHANGED << S, ext, task, cuts, ck, outs >>
    /\ UNCHANGED itvars

NextCursor == CallNextBoundary \/ CallPrevBoundary \/ CallIsBoundary \/ CallProvideContext

SpecCursor == InitCursor /\ [][NextCursor]_vars

RECURSIVE collect(_)
\* graphemes(s, e).collect(): the clusters next yields until None
collect(g) ==
    LET r == next(g)
    IN  IF r.ret = None THEN << >> ELSE << unwrap(r.ret) >> \o collect(r.g)

graphemes(s, e) == collect(new_graphemes(s, e))

(***************************************************************************)
(* Notions the properties are stated with.                                 *)
(***************************************************************************)
\* the forward pass over the text is complete: next has returned None
FwdDone == drive = "bwd" \/ (last.op = "next" /\ last.ret = None)

\* both passes over the text are complete: next_back has returned None too
Done == drive = "bwd" /\ last.op = "next_back" /\ last.ret = None

\* the byte offsets at which the slices of q end, when laid out from offset 0
Ends(q) == {str_len(Concat(SubSeq(q, 1, i))) : i \in 1..Len(q)}

\* the byte offsets strictly inside the text
Inner(s) == {byte_of(s, p + 1) : p \in 1..(Len(s) - 1)}

Cat(s, p) == grapheme_category(s[p])

\* section 4.1 of the specification: the pair table, first matching row
classify(before, after) ==
    CASE before = "GC_Control" /\ after = "GC_Control" -> "CheckCRLF"
      [] before = "GC_Control" -> "Break"
      [] after = "GC_Control" -> "Break"
      [] before = "GC_L" /\ after \in {"GC_L", "GC_V", "GC_LV", "GC_LVT"} -> "NotBreak"
      [] before \in {"GC_LV", "GC_V"} /\ after \in {"GC_V", "GC_T"} -> "NotBreak"
      [] before \in {"GC_LVT", "GC_T"} /\ after = "GC_T" -> "NotBreak"
      [] after \in {"GC_Extend", "GC_ZWJ"} -> "NotBreak"
      [] after = "GC_SpacingMark" -> "Extended"
      [] before = "GC_Prepend" -> "Extended"
      [] before \in {"GC_E_Base", "GC_E_Base_GAZ"} /\ after = "GC_E_Modifier" -> "NotBreak"
      [] before = "GC_Extend" /\ after = "GC_E_Modifier" -> "Emoji"
      [] before = "GC_ZWJ" /\ after \in {"GC_Glue_After_Zwj", "GC_E_Base_GAZ"} -> "NotBreak"
      [] before = "GC_Regional_Indicator" /\ after = "GC_Regional_Indicator" -> "Regional"
      [] OTHER -> "Break"

RECURSIVE first_non_extend(_, _)
\* the category of the first non-Extend code point at or left of position p
first_non_extend(s, p) ==
    IF p < 1 THEN "sot"
    ELSE IF Cat(s, p) = "GC_Extend" THEN first_non_extend(s, p - 1)
    ELSE Cat(s, p)

\* UAX #29 as section 4.1 states it: is there a break between s[p] and s[p+1]
RuleBreak(s, e, p) ==
    LET o == classify(Cat(s, p), Cat(s, p + 1))
    IN  CASE o = "Break" -> TRUE
          [] o = "NotBreak" -> FALSE
          [] o = "Extended" -> ~e
          [] o = "CheckCRLF" -> ~(s[p] = "CR" /\ s[p + 1] = "LF")
          [] o = "Regional" -> ris_before(s, p + 1) % 2 = 0
          [] o = "Emoji" -> first_non_extend(s, p) \notin {"GC_E_Base", "GC_E_Base_GAZ"}

RuleBreaks(s, e) == {byte_of(s, p + 1) : p \in {q \in 1..(Len(s) - 1) : RuleBreak(s, e, q)}}

(***************************************************************************)
(* C1: iterating next until None yields only non-empty slices, and their   *)
(* concatenation in the order yielded is the text: at every point of the   *)
(* forward pass the slices yielded so far followed by the remaining string *)
(* are the text, and once next has returned None the slices alone are.     *)
(***************************************************************************)
C1_RoundTrip ==
    /\ \A i \in 1..Len(front) : front[i] # << >>
    /\ drive = "fwd" => Concat(front) \o it.string = S
    /\ FwdDone => Concat(front) = S

C1_Witness ==
    /\ FwdDone /\ drive = "fwd"
    /\ Len(front) >= 2
    /\ \E i \in 1..Len(front) : Len(front[i]) >= 2

(***************************************************************************)
(* C2: the clusters of a backward pass (next_back until None) are the      *)
(* clusters of the forward pass in reverse order.                          *)
(***************************************************************************)
C2_Reversible == Done => back = Reverse(front)

\* the offsets at which the slices of q end, in order
EndsSeq(q) == [i \in 1..Len(q) |-> str_len(Concat(SubSeq(q, 1, i)))]

\* the offsets at which the slices of q start, last slice first
StartsSeqRev(q) == [i \in 1..Len(q) |-> str_len(Concat(SubSeq(q, 1, Len(q) - i)))]

(***************************************************************************)
(* C3: for every chunking of the text, a cursor started at offset 0 and    *)
(* driven by next_boundary returns, in order, exactly the offsets at which *)
(* the clusters of graphemes(S, ext) end, then Ok(None); it neither panics *)
(* nor answers with an error the caller has no reply to.                   *)
(***************************************************************************)
C3_NextBoundaryMatches ==
    task = "next" =>
        /\ pend \notin {"panic", "stuck"}
        /\ pend = "done" => outs = EndsSeq(graphemes(S, ext))

(***************************************************************************)
(* C4: for every chunking of the text, a cursor started at offset len and  *)
(* driven by prev_boundary returns, in descending order, exactly the       *)
(* offsets at which the clusters of graphemes(S, ext) start, then Ok(None).*)
(***************************************************************************)
C4_PrevBoundaryMatches ==
    task = "prev" =>
        /\ pend \notin {"panic", "stuck"}
        /\ pend = "done" => outs = StartsSeqRev(graphemes(S, ext))

(***************************************************************************)
(* C5: the forward pass places a boundary between two adjacent code points *)
(* exactly where the rules of the section 4.1 table say break.             *)
(***************************************************************************)
C5_ForwardFollowsRules == FwdDone => Ends(front) \cap Inner(S) = RuleBreaks(S, ext)

\* the PairResult variant the table's outcome names
PairResultOf(o) == IF o = "CheckCRLF" THEN "CheckCrlf" ELSE o

(***************************************************************************)
(* C6: check_pair gives every pair of categories the outcome of the first  *)
(* matching row of the section 4.1 table; stated of the pair of categories *)
(* around every gap of the text the cursor is driven over.                 *)
(***************************************************************************)
C6_CheckPairIsTable ==
    \A p \in 1..(Len(S) - 1) :
        check_pair(Cat(S, p), Cat(S, p + 1)) = PairResultOf(classify(Cat(S, p), Cat(S, p + 1)))

\* is_boundary has answered from the pair of categories around the cursor
AnsweredFromPair ==
    /\ task = "is" /\ pend = "done"
    /\ cur.cat # None /\ cur.catb # None

(***************************************************************************)
(* C7: when is_boundary has classified the pair of categories around the   *)
(* cursor as Extended, it returns Ok(true) iff the cursor is not in        *)
(* extended mode, and records Break / NotBreak accordingly.                *)
(***************************************************************************)
C7_ExtendedBreaksIffLegacy ==
    (AnsweredFromPair /\ check_pair(unwrap(cur.cat), unwrap(cur.catb)) = "Extended") =>
        /\ res = Ok(~cur.is_extended)
        /\ cur.state = IF cur.is_extended THEN "NotBreak" ELSE "Break"

RECURSIVE collect_back(_)
\* graphemes(s, e).rev().collect(): the clusters next_back yields until None
collect_back(g) ==
    LET r == next_back(g)
    IN  IF r.ret = None THEN << >> ELSE << unwrap(r.ret) >> \o collect_back(r.g)

\* the offsets between a ZWJ and a following Glue_After_Zwj or E_Base_GAZ
ZwjGaps(s) == {byte_of(s, p + 1) : p \in {q \in 1..(Len(s) - 1) :
                    /\ Cat(s, q) = "GC_ZWJ"
                    /\ Cat(s, q + 1) \in {"GC_Glue_After_Zwj", "GC_E_Base_GAZ"}}}

\* the iterator's share of GB11, in the states of the two passes
IteratorsKeepZwjPairs ==
    /\ FwdDone => ZwjGaps(S) \cap Ends(front) = {}
    /\ Done => ZwjGaps(S) \cap Ends(Reverse(back)) = {}

(***************************************************************************)
(* C8: a ZWJ immediately followed by a Glue_After_Zwj or an E_Base_GAZ is  *)
(* never separated (GB11): neither by the forward pass, nor by the         *)
(* backward pass, nor by is_boundary at the offset between them.           *)
(***************************************************************************)
C8_ZwjPairsNeverSplit ==
    /\ ZwjGaps(S) \cap Ends(graphemes(S, ext)) = {}
    /\ ZwjGaps(S) \cap Ends(Reverse(collect_back(new_graphemes(S, ext)))) = {}
    /\ (task = "is" /\ cur.offset \in ZwjGaps(S)) =>
          /\ pend # "panic"
          /\ pend = "done" => res = Ok(FALSE)

\* the positions p with an RI on both sides of the gap between p and p + 1
RIGaps(s) == {p \in 1..(Len(s) - 1) : Cat(s, p) = "GC_Regional_Indicator"
                                      /\ Cat(s, p + 1) = "GC_Regional_Indicator"}

\* the slices q cut the RI runs of s after every second RI of a run
PairsRIs(q, s) ==
    \A p \in RIGaps(s) : (byte_of(s, p + 1) \in Ends(q)) <=> (ris_before(s, p + 1) % 2 = 0)

(***************************************************************************)
(* C9: inside every maximal run of Regional_Indicator code points, the     *)
(* forward pass and the backward pass both place a boundary exactly after  *)
(* every second RI counted from the start of the run.                      *)
(***************************************************************************)
C9_RegionalPairs ==
    /\ FwdDone => PairsRIs(front, S)
    /\ Done => PairsRIs(Reverse(back), S)

C9_Witness ==
    /\ Done
    /\ Len(S) >= 5
    /\ \A p \in 1..5 : S[p] = "RI"

HasControl(c) == \E i \in 1..Len(c) : grapheme_category(c[i]) = "GC_Control"

ControlsAlone(q, s) ==
    /\ \A i \in 1..Len(q) : (Len(q[i]) > 1 /\ HasControl(q[i])) => q[i] = <<"CR", "LF">>
    /\ \A p \in 1..(Len(s) - 1) :
          /\ (s[p] = "CR" /\ s[p + 1] = "LF") => byte_of(s, p + 1) \notin Ends(q)
          /\ (s[p] = "PRE" /\ Cat(s, p + 1) = "GC_Control") => byte_of(s, p + 1) \in Ends(q)

(***************************************************************************)
(* C10: in both modes and both directions no cluster of more than one code *)
(* point contains a Control, CR or LF, except the cluster CR LF; CR LF is  *)
(* always one cluster; a Prepend followed by a Control is always split.    *)
(***************************************************************************)
C10_ControlsAlone ==
    /\ FwdDone => ControlsAlone(front, S)
    /\ Done => ControlsAlone(Reverse(back), S)

C10_Witness ==
    /\ Done
    /\ ext
    /\ S = <<"PRE", "CR", "LF">>
    /\ back = << <<"CR", "LF">>, <<"PRE">> >>


\* the position of the first code point after p that is not a Prepend, or 0
RECURSIVE follower(_, _)
follower(s, p) ==
    IF p >= Len(s) THEN 0
    ELSE IF Cat(s, p + 1) = "GC_Prepend" THEN follower(s, p + 1)
    ELSE p + 1

\* the slices q treat every Prepend of s as rule GB9b and the legacy rules say
PrependJoins(q, s, e) ==
    \A p \in 1..(Len(s) - 1) :
        Cat(s, p) = "GC_Prepend" =>
            IF e
            THEN LET f == follower(s, p)
                 IN  (f # 0 /\ Cat(s, f) # "GC_Control") =>
                        \A j \in p..(f - 1) : byte_of(s, j + 1) \notin Ends(q)
            ELSE Cat(s, p + 1) \notin {"GC_Extend", "GC_ZWJ"} =>
                        byte_of(s, p + 1) \in Ends(q)

(***************************************************************************)
(* C11: in extended mode every maximal run of Prepend that is followed by  *)
(* a code point other than a Control lies in the cluster of that code      *)
(* point, in the forward and in the backward pass; in legacy mode a        *)
(* Prepend is split from a following code point unless that is an Extend   *)
(* or a ZWJ.                                                               *)
(***************************************************************************)
C11_PrependJoins ==
    /\ FwdDone => PrependJoins(front, S, ext)
    /\ Done => PrependJoins(Reverse(back), S, ext)

C11_Witness ==
    /\ Done
    /\ ext
    /\ S = <<"CTL", "PRE", "PRE", "ANY">>
    /\ front = << <<"CTL">>, <<"PRE", "PRE", "ANY">> >>
    /\ back = << <<"PRE", "PRE", "ANY">>, <<"CTL">> >>


(***************************************************************************)
(* GraphemeIndices (src/grapheme.rs:17-60): a Graphemes iterator and the   *)
(* address of the text.  A &str is an address and its content: the content *)
(* of iter.string is in iter, its address in ptr.                          *)
(***************************************************************************)
MaxAddr == 2

\* the addresses the text may lie at
Addrs == 1..MaxAddr

\* new_grapheme_indices, a the address of s
new_grapheme_indices(s, is_extended, a) ==
    [start_offset |-> a, iter |-> new_graphemes(s, is_extended), ptr |-> a]

\* GraphemeIndices::size_hint
indices_size_hint(gi) == size_hint(gi.iter)

\* .map(|s| (s.as_ptr() as usize - self.start_offset, s)), p the address of s
indices_item(gi, p, ret) ==
    IF ret = None THEN None ELSE Some(<< p - gi.start_offset, unwrap(ret) >>)

\* a slip of the address: the slice next_back returns taken to start the string
as_ptr_back_base(gi, g1) == gi.ptr

\* the address of the slice next_back returns, &self.string[idx..], g1 the
\* iterator left, whose string is &self.string[..idx]
as_ptr_back(gi, g1) == gi.ptr + str_len(g1.string)

\* the item and the GraphemeIndices after iter.next() gave r
indices_next_ret(gi, r) ==
    [ret |-> indices_item(gi, gi.ptr, r.ret),
     gi |-> [gi EXCEPT !.iter = r.g,
                       !.ptr = gi.ptr + (str_len(gi.iter.string) - str_len(r.g.string))]]

\* GraphemeIndices::next
indices_next(gi) == indices_next_ret(gi, next(gi.iter))

\* the item and the GraphemeIndices after iter.next_back() gave r
indices_next_back_ret(gi, r) ==
    [ret |-> indices_item(gi, as_ptr_back(gi, r.g), r.ret),
     gi |-> [gi EXCEPT !.iter = r.g]]

\* GraphemeIndices::next_back
indices_next_back(gi) == indices_next_back_ret(gi, next_back(gi.iter))

(***************************************************************************)
(* grapheme_indices(S, ext) driven forward until None, then                *)
(* grapheme_indices(S, ext).rev() driven until None; front and back hold   *)
(* the pairs (offset, slice) yielded.                                      *)
(***************************************************************************)
InitIndices ==
    /\ S \in CursorTexts
    /\ ext \in BOOLEAN
    /\ \E a \in Addrs : it = new_grapheme_indices(S, ext, a)
    /\ drive = "fwd"
    /\ front = << >>
    /\ back = << >>
    /\ last = [op |-> "new", ret |-> None]
    /\ NoCursor

CallIndicesNext ==
    /\ drive = "fwd"
    /\ last.op = "new" \/ last.ret # None
    /\ \E r \in {indices_next(it)} :
           /\ it' = r.gi
           /\ front' = IF r.ret = None THEN front ELSE Append(front, unwrap(r.ret))
           /\ last' = [op |-> "next", ret |-> r.ret]
    /\ UNCHANGED << S, ext, drive, back >>
    /\ UNCHANGED curvars

\* grapheme_indices(S, ext).rev(): a second iterator over the same text
NewIndicesRev ==
    /\ drive = "fwd"
    /\ last.op = "next" /\ last.ret = None
    /\ it' = new_grapheme_indices(S, ext, it.start_offset)
    /\ drive' = "bwd"
    /\ last' = [op |-> "new", ret |-> None]
    /\ UNCHANGED << S, ext, front, back >>
    /\ UNCHANGED curvars

CallIndicesNextBack ==
    /\ drive = "bwd"
    /\ last.op = "new" \/ last.ret # None
    /\ \E r \in {indices_next_back(it)} :
           /\ it' = r.gi
           /\ back' = IF r.ret = None THEN back ELSE Append(back, unwrap(r.ret))
           /\ last' = [op |-> "next_back", ret |-> r.ret]
    /\ UNCHANGED << S, ext, drive, front >>
    /\ UNCHANGED curvars

NextIndices == CallIndicesNext \/ NewIndicesRev \/ CallIndicesNextBack

SpecIndices == InitIndices /\ [][NextIndices]_vars

\* the slices of a sequence of pairs (offset, slice)
Slices(q) == [i \in 1..Len(q) |-> q[i][2]]

\* the pair x is the bytes of s from its offset on
IsSliceAt(s, x) ==
    /\ is_char_boundary(s, x[1])
    /\ is_char_boundary(s, x[1] + str_len(x[2]))
    /\ x[2] = SubSeq(s, pos_of(s, x[1]), pos_of(s, x[1] + str_len(x[2])) - 1)

(***************************************************************************)
(* C12: every pair (off, slice) that GraphemeIndices yields, by next or by *)
(* next_back, has slice = S[off .. off + slice.len()].  Forward, the       *)
(* offsets start at 0, increase strictly, and each is the sum of the       *)
(* lengths of the clusters before it; backward they decrease strictly and  *)
(* each is the length of the text less the clusters yielded up to it.      *)
(***************************************************************************)
C12_IndicesAreOffsets ==
    /\ \A i \in 1..Len(front) :
          /\ IsSliceAt(S, front[i])
          /\ front[i][1] = str_len(Concat(SubSeq(Slices(front), 1, i - 1)))
          /\ i > 1 => front[i - 1][1] < front[i][1]
    /\ \A i \in 1..Len(back) :
          /\ IsSliceAt(S, back[i])
          /\ back[i][1] = str_len(S) - str_len(Concat(SubSeq(Slices(back), 1, i)))
          /\ i > 1 => back[i - 1][1] > back[i][1]

C12_Witness ==
    /\ Done
    /\ it.start_offset = MaxAddr
    /\ Len(front) >= 3
    /\ Len(back) >= 3
    /\ \E i \in 1..Len(back) : Len(back[i][2]) >= 2


\* the hint h of an iterator that has n clusters still to yield is right
HintBounds(h, n) == h[1] <= n /\ h[2] # None /\ n <= unwrap(h[2])

\* the number of clusters the iterator g has still to yield, driven from d
Remaining(g, d) == IF d = "bwd" THEN Len(collect_back(g)) ELSE Len(collect(g))

\* the same for GraphemeIndices, in the states of SpecIndices
IndicesSizeHintBounds ==
    /\ HintBounds(indices_size_hint(it), Remaining(it.iter, drive))
    /\ it.iter.string = << >> => indices_size_hint(it) = << 0, Some(0) >>

(***************************************************************************)
(* C13: before the first call, between calls and after exhaustion,         *)
(* size_hint() = (lo, Some(hi)) has lo <= the number of clusters still to  *)
(* be yielded <= hi, and it is (0, Some(0)) once the iterator is           *)
(* exhausted.                                                              *)
(***************************************************************************)
C13_SizeHintBounds ==
    /\ HintBounds(size_hint(it), Remaining(it, drive))
    /\ it.string = << >> => size_hint(it) = << 0, Some(0) >>

C13_Witness ==
    /\ drive = "bwd"
    /\ Len(back) = 1
    /\ Remaining(it, drive) = 2
    /\ size_hint(it) = << 1, Some(5) >>


(***************************************************************************)
(* C14: every cluster c the forward pass yields is a fixed point of the    *)
(* segmentation: graphemes(c, ext) yields one cluster, and it is c.        *)
(***************************************************************************)
C14_ClustersResegmentToThemselves ==
    drive = "fwd" => \A i \in 1..Len(front) : graphemes(front[i], ext) = << front[i] >>

C14_Witness ==
    /\ drive = "fwd" /\ FwdDone
    /\ Len(front) >= 2
    /\ \E i \in 1..Len(front) : Len(front[i]) >= 3


(***************************************************************************)
(* The cursor under any sequence of its operations: a cursor constructed   *)
(* at any offset of the text, then set_cursor, is_boundary, next_boundary, *)
(* prev_boundary and provide_context in any order, each with any chunk of  *)
(* the text, the empty chunks included.  task is the operation called      *)
(* last and res its result; a panic ends the run.                          *)
(***************************************************************************)
MaxAnyLen == 2

AnyChars == {"LF", "RI", "EM", "ANY"}

AnyTexts == Texts(AnyChars, MaxAnyLen)

\* the offsets of s that lie on a char boundary
Offsets(s) == {byte_of(s, p) : p \in 1..(Len(s) + 1)}

\* the chunks of s a caller can pass: positions lo..hi, empty when hi < lo
Chunks(s) == {k \in [lo : 1..(Len(s) + 1), hi : 0..Len(s)] : k.lo <= k.hi + 1}

NoChunk == [lo |-> 1, hi |-> 0]

\* ris_count grows without limit under repeated calls; runs stop past this count
MaxRisCount == 3

\* the caller may go on: no panic so far and the counter within its bound
MayCall ==
    /\ pend = "call"
    /\ IF cur.ris_count = None THEN TRUE ELSE unwrap(cur.ris_count) <= MaxRisCount

InitAny ==
    /\ S \in AnyTexts
    /\ ext \in BOOLEAN
    /\ NoIterator
    /\ cuts = {}
    /\ outs = << >>
    /\ pend = "call"
    /\ task = "new"
    /\ ck = NoChunk
    /\ res = Ok("unit")
    /\ \E o \in Offsets(S) : cur = new(o, str_len(S), ext)

\* the state after operation op gave b
AfterCall(op, b) ==
    /\ task' = op
    /\ ck' = NoChunk
    /\ cur' = b.c
    /\ res' = b.r
    /\ pend' = IF b.r.kind = "panic" THEN "panic" ELSE "call"
    /\ UNCHANGED << S, ext, cuts, outs >>
    /\ UNCHANGED itvars

AnySetCursor ==
    /\ MayCall
    /\ \E o \in Offsets(S) :
          AfterCall("set_cursor", [c |-> set_cursor(cur, o), r |-> Ok("unit")])

AnyIsBoundary ==
    /\ MayCall
    /\ \E k \in Chunks(S) :
          \E b \in {is_boundary(cur, chunk_str(S, k), chunk_start_of(S, k))} :
              AfterCall("is_boundary", b)

AnyNextBoundary ==
    /\ MayCall
    /\ \E k \in Chunks(S) :
          \E b \in {next_boundary(cur, chunk_str(S, k), chunk_start_of(S, k))} :
              AfterCall("next_boundary", b)

AnyPrevBoundary ==
    /\ MayCall
    /\ \E k \in Chunks(S) :
          \E b \in {prev_boundary(cur, chunk_str(S, k), chunk_start_of(S, k))} :
              AfterCall("prev_boundary", b)

AnyProvideContext ==
    /\ MayCall
    /\ \E k \in Chunks(S) :
          \E b \in {provide_context(cur, chunk_str(S, k), chunk_start_of(S, k))} :
              AfterCall("provide_context", b)

NextAny ==
    \/ AnySetCursor
    \/ AnyIsBoundary
    \/ AnyNextBoundary
    \/ AnyPrevBoundary
    \/ AnyProvideContext

SpecAny == InitAny /\ [][NextAny]_vars

\* the offset lies at an end of the text
AtExtremity(c) == c.offset = 0 \/ c.offset = c.len

(***************************************************************************)
(* C15: in every state any sequence of cursor operations reaches, a cursor *)
(* whose offset is 0 or len is in state Break, so is_boundary returns      *)
(* Ok(true) whatever chunk it is passed; and a cursor constructed at any   *)
(* other offset starts in state Unknown.                                   *)
(***************************************************************************)
C15_ExtremitiesAreBreaks ==
    /\ AtExtremity(cur) =>
          /\ cur.state = "Break"
          /\ \A k \in Chunks(S) :
                is_boundary(cur, chunk_str(S, k), chunk_start_of(S, k))
                    = [c |-> cur, r |-> Ok(TRUE)]
    /\ (task = "new" /\ ~AtExtremity(cur)) => cur.state = "Unknown"

C15_Witness ==
    /\ task = "next_boundary"
    /\ cur.offset = cur.len
    /\ cur.len > 1
    /\ res.kind = "Ok" /\ res.val = Some(cur.len)


\* the panics of provide_context
ProvidePanics == {"assertion failed", "unwrap on None", "index out of bounds", "invalid state"}

\* in the states of SpecCursor: provide_context has just returned
Provided == pend = "call" /\ res.kind = "Ok" /\ Len(res.val) = 2

(***************************************************************************)
(* C16: after is_boundary, directly or inside next_boundary or             *)
(* prev_boundary, has returned Err(PreContext(k)), provide_context with    *)
(* the non-empty chunk that ends at k does not panic, clears the pending   *)
(* request, and leaves the cursor decided or with a new pending request,   *)
(* whatever the category of the code point after the cursor.               *)
(***************************************************************************)
C16_ProvideContextCompletes ==
    /\ pend = "panic" => res.val \notin ProvidePanics
    /\ Provided =>
          \/ cur.state \in {"Break", "NotBreak"} /\ cur.pre_context_offset = None
          \/ cur.pre_context_offset # None /\ unwrap(cur.pre_context_offset) < res.val[2]

(***************************************************************************)
(* C17: after set_cursor(offset) the cached categories before and after    *)
(* the cursor are cleared, ris_count is None, and the state is Break if    *)
(* the offset is 0 or len and Unknown otherwise, whatever the cursor was   *)
(* before.                                                                 *)
(***************************************************************************)
C17_SetCursorResets ==
    task = "set_cursor" =>
        /\ cur.cat = None
        /\ cur.catb = None
        /\ cur.ris_count = None
        /\ cur.state = initial_state(cur.offset, cur.len)


\* the text 'a', RI, RI, 'b' in extended mode, cut before the second RI, and a
\* cursor at offset 5, just before the second RI, asked is_boundary
TwoRIsCutInside ==
    /\ S = <<"ANY", "RI", "RI", "ANY">>
    /\ ext
    /\ cuts = {3}
    /\ task = "is"
    /\ cur.offset = 5

(***************************************************************************)
(* C18, as stated: on 'a', RI, RI, 'b' in extended mode with the cursor at *)
(* offset 5, is_boundary passed the chunk of bytes 0..5 returns            *)
(* Err(PreContext(_)), and once the leading chunk has been provided        *)
(* is_boundary returns Ok(true).                                           *)
(***************************************************************************)
C18_AsStated ==
    TwoRIsCutInside =>
        /\ cur = new(5, 10, TRUE) =>
              LET b == is_boundary(cur, SubSeq(S, 1, 2), 0)
              IN  b.r.kind = "Err" /\ b.r.val[1] = "PreContext"
        /\ pend = "done" => res.kind = "Ok" /\ res.val = TRUE

(***************************************************************************)
(* C18, amended: on 'a', RI, RI, 'b' in extended mode with the cursor at   *)
(* offset 5, is_boundary passed the chunk of bytes 0..5, which does not    *)
(* hold the offset, returns Err(InvalidOffset); passed the chunk of bytes  *)
(* 5..10 it returns Err(PreContext(5)); and once provide_context has been  *)
(* given the leading chunk, is_boundary returns Ok(false): the two RIs are *)
(* one pair.                                                               *)
(***************************************************************************)
C18_SecondRIJoinsFirst ==
    TwoRIsCutInside =>
        /\ pend \in {"call", "provide", "done"}
        /\ cur = new(5, 10, TRUE) =>
              is_boundary(cur, SubSeq(S, 1, 2), 0) = [c |-> cur, r |-> Err(InvalidOffset)]
        /\ pend = "provide" => res = Err(PreContext(5))
        /\ pend = "done" => res.kind = "Ok" /\ res.val = FALSE

C18_Witness ==
    /\ TwoRIsCutInside
    /\ pend = "done"
    /\ cur.ris_count = Some(1)
    /\ cur.state = "NotBreak"


(***************************************************************************)
(* C19: next_boundary on a cursor whose offset is len returns Ok(None),    *)
(* and prev_boundary on a cursor whose offset is 0 returns Ok(None); no    *)
(* field of the cursor changes, and the answer is the same for every chunk *)
(* passed, so the chunk is not read.                                       *)
(***************************************************************************)
C19_NoneAtExtremities ==
    /\ cur.offset = cur.len =>
          \A k \in Chunks(S) :
              LET b == next_boundary(cur, chunk_str(S, k), chunk_start_of(S, k))
              IN  b.r.kind = "Ok" /\ b.r.val = None /\ b.c = cur
    /\ cur.offset = 0 =>
          \A k \in Chunks(S) :
              LET b == prev_boundary(cur, chunk_str(S, k), chunk_start_of(S, k))
              IN  b.r.kind = "Ok" /\ b.r.val = None /\ b.c = cur

C19_Witness ==
    /\ task = "next_boundary"
    /\ res.kind = "Ok" /\ res.val = None
    /\ cur.offset = cur.len
    /\ cur.len > 1
    /\ cur.cat # None

\* the chunk k of s holds the offset of cursor c
HoldsOffset(s, k, c) ==
    /\ chunk_start_of(s, k) <= c.offset
    /\ c.offset < chunk_start_of(s, k) + str_len(chunk_str(s, k))

(***************************************************************************)
(* C20: when the cursor is undecided and the chunk passed does not hold    *)
(* the cursor offset, is_boundary returns Err(InvalidOffset) and changes   *)
(* no field of the cursor.                                                 *)
(***************************************************************************)
C20_InvalidOffset ==
    cur.state \notin {"Break", "NotBreak"} =>
        \A k \in Chunks(S) :
            ~HoldsOffset(S, k, cur) =>
                LET b == is_boundary(cur, chunk_str(S, k), chunk_start_of(S, k))
                IN  b.r.kind = "Err" /\ b.r.val = InvalidOffset /\ b.c = cur

C20_Witness ==
    /\ task = "is_boundary"
    /\ res.kind = "Err" /\ res.val = InvalidOffset
    /\ cur.pre_context_offset # None


(***************************************************************************)
(* The two modes side by side: graphemes(S, true) and graphemes(S, false)  *)
(* driven in step through a forward pass and a backward pass, and two      *)
(* cursors at the same offset of the same chunked text, one per mode, each *)
(* driven by is_boundary and provide_context.  Every variable of the       *)
(* iterator and of the cursor holds a pair: extended first, legacy second. *)
(***************************************************************************)
MaxModeLen == 3

ModeChars == {"CR", "LF", "ANY", "EXT", "RI", "EM", "PRE", "SM"}

ModeTexts == Texts(ModeChars, MaxModeLen) \cup Texts(Chars, MaxCurLen)
             \cup Texts(EmojiChars, MaxCurEmojiLen)

\* is_extended of the first and of the second component
Modes == << TRUE, FALSE >>

InitModes ==
    /\ S \in ModeTexts
    /\ ext = TRUE
    /\ it = << new_graphemes(S, Modes[1]), new_graphemes(S, Modes[2]) >>
    /\ front = << << >>, << >> >>
    /\ back = << << >>, << >> >>
    /\ last = [op |-> "new", ret |-> << None, None >>]
    /\ outs = << >>
    /\ \/ /\ drive = "fwd"
          /\ task = "none"
          /\ cuts = {}
          /\ ck = NoChunk
          /\ cur = << new(0, 0, Modes[1]), new(0, 0, Modes[2]) >>
          /\ res = << Ok(None), Ok(None) >>
          /\ pend = << "done", "done" >>
       \/ /\ drive = "none"
          /\ task = "is"
          /\ cuts \in SUBSET (2..Len(S))
          /\ res = << Ok(None), Ok(None) >>
          /\ pend = << "call", "call" >>
          /\ \E p \in 1..Len(S) :
                /\ cur = << new(byte_of(S, p), str_len(S), Modes[1]),
                            new(byte_of(S, p), str_len(S), Modes[2]) >>
                /\ ck = chunk_of(S, cuts, p)

\* q with the slice of r appended, when r holds one
yielded(q, r) == IF r.ret = None THEN q ELSE Append(q, unwrap(r.ret))

\* one call of Graphemes::next on each of the two iterators
BothNext ==
    /\ drive = "fwd"
    /\ last.op = "new" \/ last.ret # << None, None >>
    /\ \E rx \in {next(it[1])} : \E rl \in {next(it[2])} :
           /\ it' = << rx.g, rl.g >>
           /\ front' = << yielded(front[1], rx), yielded(front[2], rl) >>
           /\ last' = [op |-> "next", ret |-> << rx.ret, rl.ret >>]
    /\ UNCHANGED << S, ext, drive, back >>
    /\ UNCHANGED curvars

\* graphemes(S, true).rev() and graphemes(S, false).rev()
BothNewRev ==
    /\ drive = "fwd"
    /\ last.op = "next" /\ last.ret = << None, None >>
    /\ it' = << new_graphemes(S, Modes[1]), new_graphemes(S, Modes[2]) >>
    /\ drive' = "bwd"
    /\ last' = [op |-> "new", ret |-> << None, None >>]
    /\ UNCHANGED << S, ext, front, back >>
    /\ UNCHANGED curvars

\* one call of Graphemes::next_back on each of the two iterators
BothNextBack ==
    /\ drive = "bwd"
    /\ last.op = "new" \/ last.ret # << None, None >>
    /\ \E rx \in {next_back(it[1])} : \E rl \in {next_back(it[2])} :
           /\ it' = << rx.g, rl.g >>
           /\ back' = << yielded(back[1], rx), yielded(back[2], rl) >>
           /\ last' = [op |-> "next_back", ret |-> << rx.ret, rl.ret >>]
    /\ UNCHANGED << S, ext, drive, front >>
    /\ UNCHANGED curvars

\* the caller's step after is_boundary returned r
pend_after_is(r) == IF r.kind = "Ok" THEN "done" ELSE pend_after(r)

\* is_boundary on the cursor of mode i if its caller is about to call it
is_boundary_if(i) ==
    IF pend[i] = "call"
    THEN is_boundary(cur[i], chunk_str(S, ck), chunk_start_of(S, ck))
    ELSE [c |-> cur[i], r |-> res[i]]

\* provide_context on the cursor of mode i if its caller owes it the context
provide_context_if(i) ==
    IF pend[i] = "provide"
    THEN LET pre == chunk_of(S, cuts, pos_of(S, res[i].val[2]) - 1)
         IN  provide_context(cur[i], chunk_str(S, pre), chunk_start_of(S, pre))
    ELSE [c |-> cur[i], r |-> res[i]]

\* is_boundary on each cursor whose caller is about to call it
BothIsBoundary ==
    /\ task = "is"
    /\ \E i \in 1..2 : pend[i] = "call"
    /\ \E bx \in {is_boundary_if(1)} : \E bl \in {is_boundary_if(2)} :
           /\ cur' = << bx.c, bl.c >>
           /\ res' = << bx.r, bl.r >>
           /\ pend' = << IF pend[1] = "call" THEN pend_after_is(bx.r) ELSE pend[1],
                         IF pend[2] = "call" THEN pend_after_is(bl.r) ELSE pend[2] >>
    /\ UNCHANGED << S, ext, task, cuts, ck, outs >>
    /\ UNCHANGED itvars

\* the caller's step and the result kept after provide_context returned r
provided(i, b) ==
    IF pend[i] # "provide" THEN [pend |-> pend[i], res |-> res[i]]
    ELSE IF b.r.kind = "panic" THEN [pend |-> "panic", res |-> b.r]
    ELSE [pend |-> "call", res |-> Ok(<< "provided", res[i].val[2] >>)]

\* provide_context on each cursor that asked for the preceding chunk
BothProvideContext ==
    /\ task = "is"
    /\ \E i \in 1..2 : pend[i] = "provide"
    /\ \E bx \in {provide_context_if(1)} : \E bl \in {provide_context_if(2)} :
           /\ cur' = << bx.c, bl.c >>
           /\ res' = << provided(1, bx).res, provided(2, bl).res >>
           /\ pend' = << provided(1, bx).pend, provided(2, bl).pend >>
    /\ UNCHANGED << S, ext, task, cuts, ck, outs >>
    /\ UNCHANGED itvars

NextModes == BothNext \/ BothNewRev \/ BothNextBack \/ BothIsBoundary \/ BothProvideContext

SpecModes == InitModes /\ [][NextModes]_vars

\* the text holds neither a SpacingMark nor a Prepend
NoMarkNoPrepend(s) ==
    \A p \in 1..Len(s) : Cat(s, p) \notin {"GC_SpacingMark", "GC_Prepend"}

(***************************************************************************)
(* C21: on a text with no SpacingMark and no Prepend the two modes agree:  *)
(* at every step of the forward pass and of the backward pass the two      *)
(* iterators have yielded the same slices and returned the same value, and *)
(* the two cursors, at every offset and under every chunking, have been    *)
(* given the same results by is_boundary and ask their callers the same.   *)
(***************************************************************************)
C21_ModesAgree ==
    NoMarkNoPrepend(S) =>
        /\ front[1] = front[2]
        /\ back[1] = back[2]
        /\ last.ret[1] = last.ret[2]
        /\ it[1].string = it[2].string
        /\ res[1] = res[2]
        /\ pend[1] = pend[2]

C21_Witness ==
    /\ S = << "ANY", "EXT", "ANY" >>
    /\ drive = "bwd"
    /\ last.op = "next_back" /\ last.ret = << None, None >>
    /\ back[1] = << << "ANY" >>, << "ANY", "EXT" >> >>
    /\ front[2] = << << "ANY", "EXT" >>, << "ANY" >> >>


(***************************************************************************)
(* Sentences (src/sentence.rs).  Code points and the category table        *)
(* (tables::sentence):                                                     *)
(*   CR U+000D, LF U+000A, SEP U+0085, SP U+0020, DOT U+002E, BANG U+0021, *)
(*   CLOSE U+0029, UP U+0041, ANY U+0061, OLET U+05D0, NUM U+0030,         *)
(*   COMMA U+002C, EXT U+0300, FMT U+00AD, CTL U+0001.                     *)
(***************************************************************************)
SentenceChars == {"CR", "LF", "SEP", "SP", "DOT", "BANG", "CLOSE", "UP", "ANY",
                  "OLET", "NUM", "COMMA", "EXT", "FMT", "CTL"}

\* the code points of the rules SB8 to SB11
TermChars == {"DOT", "BANG", "CLOSE", "SP", "LF", "ANY", "UP", "EXT"}

\* tables::sentence::sentence_category
sentence_category(ch) ==
    CASE ch = "CR" -> "SC_CR"
      [] ch = "LF" -> "SC_LF"
      [] ch = "SEP" -> "SC_Sep"
      [] ch = "SP" -> "SC_Sp"
      [] ch = "DOT" -> "SC_ATerm"
      [] ch = "BANG" -> "SC_STerm"
      [] ch = "CLOSE" -> "SC_Close"
      [] ch = "UP" -> "SC_Upper"
      [] ch = "ANY" -> "SC_Lower"
      [] ch = "OLET" -> "SC_OLetter"
      [] ch = "NUM" -> "SC_Numeric"
      [] ch = "COMMA" -> "SC_SContinue"
      [] ch = "EXT" -> "SC_Extend"
      [] ch = "FMT" -> "SC_Format"
      [] ch = "CTL" -> "SC_Any"

\* INITIAL_STATE
INITIAL_STATE == << "Sot", "Sot", "Sot", "Sot" >>

\* the StatePart a category enters the window as
state_part(cat) ==
    CASE cat = "SC_CR" -> "CR"
      [] cat = "SC_LF" -> "LF"
      [] cat = "SC_Sep" -> "Sep"
      [] cat = "SC_ATerm" -> "ATerm"
      [] cat \in {"SC_Upper", "SC_Lower"} -> "UpperLower"
      [] cat = "SC_Close" -> "ClosePlus"
      [] cat = "SC_Sp" -> "SpPlus"
      [] cat = "SC_STerm" -> "STerm"
      [] OTHER -> "Other"

\* a slip of the window: runs of Close and of Sp are not collapsed
state_next_uncollapsed(parts, cat) == << parts[2], parts[3], parts[4], state_part(cat) >>

\* SentenceBreaksState::next; parts[1..4] is the array parts[0..3]
state_next(parts, cat) ==
    IF parts[4] = "ClosePlus" /\ cat = "SC_Close" THEN parts
    ELSE IF parts[4] = "SpPlus" /\ cat = "SC_Sp" THEN parts
    ELSE << parts[2], parts[3], parts[4], state_part(cat) >>

\* SentenceBreaksState::end
state_end(parts) == << parts[2], parts[3], parts[4], "Eot" >>

\* SentenceBreaksState::match1
match1(parts, part) == part = parts[4]

\* SentenceBreaksState::match2
match2(parts, part1, part2) == part1 = parts[3] /\ part2 = parts[4]

\* the index (from 1) of the window part before a trailing Sp* and Close*
before_close_sp(parts) ==
    LET idx == IF parts[4] = "SpPlus" THEN 3 ELSE 4
    IN  IF parts[idx] = "ClosePlus" THEN idx - 1 ELSE idx

RECURSIVE sb8_ahead(_, _)
\* the loop of match_sb8 over ahead.chars(), k the position scanned
sb8_ahead(ahead, k) ==
    IF k > Len(ahead) THEN FALSE
    ELSE LET c == sentence_category(ahead[k])
         IN  IF c = "SC_Lower" THEN TRUE
             ELSE IF c \in {"SC_OLetter", "SC_Upper", "SC_Sep", "SC_CR", "SC_LF",
                            "SC_STerm", "SC_ATerm"} THEN FALSE
             ELSE sb8_ahead(ahead, k + 1)

\* match_sb8
match_sb8(parts, ahead) ==
    IF parts[before_close_sp(parts)] = "ATerm" THEN sb8_ahead(ahead, 1) ELSE FALSE

\* match_sb8a
match_sb8a(parts) == parts[before_close_sp(parts)] \in {"STerm", "ATerm"}

\* match_sb9
match_sb9(parts) ==
    LET idx == IF parts[4] = "ClosePlus" THEN 3 ELSE 4
    IN  parts[idx] \in {"STerm", "ATerm"}

\* match_sb11
match_sb11(parts) ==
    LET i0 == IF parts[4] \in {"Sep", "CR", "LF"} THEN 3 ELSE 4
        i1 == IF parts[i0] = "SpPlus" THEN i0 - 1 ELSE i0
        i2 == IF parts[i1] = "ClosePlus" THEN i1 - 1 ELSE i1
    IN  parts[i2] \in {"STerm", "ATerm"}

\* new_sentence_breaks
new_sentence_breaks(source) == [string |-> source, pos |-> 0, state |-> INITIAL_STATE]

\* SentenceBreaks::size_hint
breaks_size_hint(sb) ==
    LET slen == str_len(sb.string)
    IN  << IF slen < 2 THEN slen ELSE 2, Some(slen + 1) >>

\* the match on next_cat (ncat) inside the loop of SentenceBreaks::next: "return",
\* "restore" (SB5) or "continue"
sb_rule(state_before, ncat, ahead) ==
    IF match1(state_before, "Sot") THEN "return"                         \* SB1
    ELSE IF ncat = "SC_LF" /\ match1(state_before, "CR") THEN "continue"
    ELSE IF match1(state_before, "Sep") \/ match1(state_before, "CR")
            \/ match1(state_before, "LF") THEN "return"                  \* SB4
    ELSE IF ncat \in {"SC_Extend", "SC_Format"} THEN "restore"       \* SB5
    ELSE IF ncat = "SC_Numeric" /\ match1(state_before, "ATerm")
         THEN "continue"                                                 \* SB6
    ELSE IF ncat = "SC_Upper" /\ match2(state_before, "UpperLower", "ATerm")
         THEN "continue"                                                 \* SB7
    ELSE IF match_sb8(state_before, ahead) THEN "continue"               \* SB8
    ELSE IF ncat \in {"SC_SContinue", "SC_STerm", "SC_ATerm"}
            /\ match_sb8a(state_before) THEN "continue"                  \* SB8a
    ELSE IF ncat \in {"SC_Close", "SC_Sp", "SC_Sep", "SC_CR", "SC_LF"}
            /\ match_sb9(state_before) THEN "continue"                   \* SB9
    ELSE IF ncat \in {"SC_Sp", "SC_Sep", "SC_CR", "SC_LF"}
            /\ match_sb8a(state_before) THEN "continue"                  \* SB10
    ELSE IF match_sb11(state_before) THEN "return"                       \* SB11
    ELSE "continue"                                                      \* SB998

\* a slip of SB2: the end of the text is not entered in the window
breaks_end_unmarked(sb) ==
    IF match1(sb.state, "Sot") THEN [ret |-> None, sb |-> sb]
    ELSE [ret |-> Some(sb.pos), sb |-> sb]

\* SB2, after the loop of SentenceBreaks::next
breaks_end(sb) ==
    IF match1(sb.state, "Sot") THEN [ret |-> None, sb |-> sb]
    ELSE IF match1(sb.state, "Eot") THEN [ret |-> None, sb |-> sb]
    ELSE [ret |-> Some(sb.pos), sb |-> [sb EXCEPT !.state = state_end(sb.state)]]

\* a slip of SB5: the window is not restored after Extend or Format
breaks_step_unrestored(sb) ==
    LET next_char == char_at(sb.string, sb.pos)
        ncat == sentence_category(next_char)
    IN  [rule |-> sb_rule(sb.state, ncat, slice_from(sb.string, sb.pos)),
         sb |-> [sb EXCEPT !.pos = sb.pos + len_utf8(next_char),
                           !.state = state_next(sb.state, ncat)]]

\* one iteration of the loop of SentenceBreaks::next on the code point at pos:
\* the rule that applied and the iterator afterwards
breaks_step(sb) ==
    LET next_char == char_at(sb.string, sb.pos)
        ncat == sentence_category(next_char)
        rule == sb_rule(sb.state, ncat, slice_from(sb.string, sb.pos))
    IN  [rule |-> rule,
         sb |-> [sb EXCEPT !.pos = sb.pos + len_utf8(next_char),
                           !.state = IF rule = "restore" THEN sb.state
                                     ELSE state_next(sb.state, ncat)]]

RECURSIVE breaks_next(_)
RECURSIVE breaks_after(_, _)
\* the loop of SentenceBreaks::next after the iteration that gave s
breaks_after(sb, s) ==
    IF s.rule = "return" THEN [ret |-> Some(sb.pos), sb |-> s.sb] ELSE breaks_next(s.sb)

\* SentenceBreaks::next: [ret |-> Option<usize>, sb |-> the iterator afterwards]
breaks_next(sb) ==
    IF sb.pos >= str_len(sb.string) THEN breaks_end(sb)
    ELSE breaks_after(sb, breaks_step(sb))

\* new_sentence_bounds
new_sentence_bounds(source) ==
    [iter |-> new_sentence_breaks(source), sentence_start |-> None]

\* the second half of USentenceBounds::next, start the sentence_start in force
bounds_next_from(u, sb, start) ==
    LET r == breaks_next(sb)
    IN  IF r.ret = None
        THEN [ret |-> None, u |-> [u EXCEPT !.iter = r.sb, !.sentence_start = start]]
        ELSE [ret |-> Some(SubSeq(sb.string, pos_of(sb.string, unwrap(start)),
                                  pos_of(sb.string, unwrap(r.ret)) - 1)),
              u |-> [u EXCEPT !.iter = r.sb, !.sentence_start = r.ret]]

\* USentenceBounds::next: [ret |-> Option<&str>, u |-> the iterator afterwards]
bounds_next(u) ==
    IF u.sentence_start = None
    THEN LET r == breaks_next(u.iter)
         IN  IF r.ret = None THEN [ret |-> None, u |-> [u EXCEPT !.iter = r.sb]]
             ELSE bounds_next_from(u, r.sb, r.ret)
    ELSE bounds_next_from(u, u.iter, u.sentence_start)

\* the width of usize on the 64-bit target
UsizeBits == 64

\* a usize is kept as the digits of its value in base 2^LimbBits, the most
\* significant first
LimbBits == 16

UsizeLimbs == UsizeBits \div LimbBits

\* the usize of value n, 0 <= n < 2^31
usize(n) ==
    [i \in 1..UsizeLimbs |->
        LET shift == LimbBits * (UsizeLimbs - i)
        IN  IF shift > 30 THEN 0 ELSE (n \div (2 ^ shift)) % (2 ^ LimbBits)]

\* x < y on usize
usize_lt(x, y) ==
    \E i \in 1..UsizeLimbs : x[i] < y[i] /\ \A j \in 1..(i - 1) : x[j] = y[j]

\* cmp::max on usize
usize_max(x, y) == IF usize_lt(y, x) THEN x ELSE y

\* a - b on usize, a and b given by value: a panic where the build checks
\* overflow, else the wrapped value 2^UsizeBits - (b - a), the complement of
\* b - a - 1 digit by digit
usize_sub(a, b, overflow_checks) ==
    IF a >= b THEN Ok(usize(a - b))
    ELSE IF overflow_checks THEN Panic("attempt to subtract with overflow")
    ELSE Ok([i \in 1..UsizeLimbs |-> 2 ^ LimbBits - 1 - usize(b - a - 1)[i]])

\* USentenceBounds::size_hint: Ok((lower, upper)), each a usize, or the panic
\* of the subtraction
bounds_size_hint(u, overflow_checks) ==
    LET h == breaks_size_hint(u.iter)
        lower == usize_sub(h[1], 1, overflow_checks)
        upper == usize_sub(unwrap(h[2]), 1, overflow_checks)
    IN  IF lower.kind = "panic" THEN lower
        ELSE IF upper.kind = "panic" THEN upper
        ELSE Ok(<< usize_max(usize(0), lower.val),
                   Some(usize_max(usize(0), upper.val)) >>)

(***************************************************************************)
(* split_sentence_bounds(S) driven by next, and the SentenceBreaks         *)
(* iterator under it driven by next on its own; both are called again      *)
(* after they have returned None.  front holds what was yielded: slices,   *)
(* or break positions.                                                     *)
(***************************************************************************)
MaxSentenceLen == 2

MaxTermLen == 4

\* the calls made after the first None
MaxNones == 2

SentenceTexts == Texts(SentenceChars, MaxSentenceLen) \cup Texts(TermChars, MaxTermLen)

InitSentences ==
    /\ S \in SentenceTexts
    /\ ext = FALSE
    /\ \/ drive = "bounds" /\ it = new_sentence_bounds(S)
       \/ drive = "breaks" /\ it = new_sentence_breaks(S)
    /\ front = << >>
    /\ back = << >>
    /\ last = [op |-> "new", ret |-> None, nones |-> 0]
    /\ NoCursor

\* the record of a call that returned ret
last_after(ret) ==
    [op |-> "next", ret |-> ret, nones |-> IF ret = None THEN last.nones + 1 ELSE last.nones]

\* one call of USentenceBounds::next
CallBoundsNext ==
    /\ drive = "bounds"
    /\ last.nones < MaxNones
    /\ \E r \in {bounds_next(it)} :
           /\ it' = r.u
           /\ front' = yielded(front, r)
           /\ last' = last_after(r.ret)
    /\ UNCHANGED << S, ext, drive, back >>
    /\ UNCHANGED curvars

\* one call of SentenceBreaks::next
CallBreaksNext ==
    /\ drive = "breaks"
    /\ last.nones < MaxNones
    /\ \E r \in {breaks_next(it)} :
           /\ it' = r.sb
           /\ front' = yielded(front, r)
           /\ last' = last_after(r.ret)
    /\ UNCHANGED << S, ext, drive, back >>
    /\ UNCHANGED curvars

NextSentences == CallBoundsNext \/ CallBreaksNext

SpecSentences == InitSentences /\ [][NextSentences]_vars

\* the positions q start at 0 and increase strictly
Ascending(q) ==
    /\ q # << >> => q[1] = 0
    /\ \A i \in 2..Len(q) : q[i - 1] < q[i]

(***************************************************************************)
(* C22: the sentences USentenceBounds::next yields are non-empty and, laid *)
(* end to end, are the text up to the last break; once next has returned   *)
(* None they are the whole text and every further call returns None.  The  *)
(* positions SentenceBreaks::next yields start at 0, increase strictly,    *)
(* end at len(S), and then every call returns None; the empty text yields  *)
(* nothing.                                                                *)
(***************************************************************************)
C22_SentencesRoundTrip ==
    /\ last.nones > 0 => last.ret = None
    /\ drive = "bounds" =>
          /\ \A i \in 1..Len(front) : front[i] # << >>
          /\ IF it.sentence_start = None THEN front = << >>
             ELSE Concat(front) = slice_to(S, unwrap(it.sentence_start))
          /\ last.nones > 0 => Concat(front) = S
    /\ drive = "breaks" =>
          /\ Ascending(front)
          /\ last.nones > 0 =>
                IF S = << >> THEN front = << >>
                ELSE front[Len(front)] = str_len(S)

C22_Witness ==
    /\ drive = "bounds"
    /\ last.nones = MaxNones
    /\ S = << "UP", "DOT", "SP", "UP" >>
    /\ front = << << "UP", "DOT", "SP" >>, << "UP" >> >>

RECURSIVE sentences(_)
\* the sentences next yields from u until None
sentences(u) ==
    LET r == bounds_next(u)
    IN  IF r.ret = None THEN << >> ELSE << unwrap(r.ret) >> \o sentences(r.u)

(***************************************************************************)
(* C23: before the first call, between calls and after exhaustion, on      *)
(* every text, the empty one included, USentenceBounds::size_hint()        *)
(* subtracts without underflow, whether or not the build checks overflow,  *)
(* and returns (lo, Some(hi)) with lo <= the number of sentences still to  *)
(* be yielded <= hi.                                                       *)
(***************************************************************************)
C23_SentenceSizeHint ==
    drive = "bounds" =>
        \A overflow_checks \in BOOLEAN :
            LET h == bounds_size_hint(it, overflow_checks)
            IN  /\ h.kind = "Ok"
                /\ ~usize_lt(usize(Len(sentences(it))), h.val[1])
                /\ ~usize_lt(unwrap(h.val[2]), usize(Len(sentences(it))))


\* the offsets at which the chunking cs of s starts a new chunk
Seams(s, cs) == {byte_of(s, c) : c \in cs}

\* the elements of the sequence q
Range(q) == {q[i] : i \in 1..Len(q)}

(***************************************************************************)
(* C24: a cursor driven by next_boundary over a chunked text skips no      *)
(* boundary at a seam: when next_boundary has stopped with an Incomplete   *)
(* error and is called again, the offset it stopped at is tested before a  *)
(* further code point is consumed.  So every seam that is a cluster        *)
(* boundary and that the cursor has moved past has been returned as        *)
(* Ok(Some(offset)).                                                       *)
(***************************************************************************)
C24_SeamNotSkipped ==
    task = "next" =>
        \A k \in Seams(S, cuts) \cap Ends(graphemes(S, ext)) :
            k < cur.offset => k \in Range(outs)


\* is_boundary on a fresh cursor at offset o, the text s passed as one chunk at 0
is_boundary_whole(s, o, e) == is_boundary(new(o, str_len(s), e), s, 0).r

(***************************************************************************)
(* C25: the answer of is_boundary on a fresh cursor, once every            *)
(* Err(PreContext(k)) has been answered by provide_context with the chunk  *)
(* that ends at k, does not depend on the chunking: the exchange ends      *)
(* without a panic, and with the answer is_boundary gives when the whole   *)
(* text is passed as one chunk starting at 0.                              *)
(***************************************************************************)
C25_ChunkingIndependent ==
    task = "is" =>
        /\ pend \notin {"panic", "stuck"}
        /\ pend = "done" => res = is_boundary_whole(S, cur.offset, ext)

\* the cursor lies between two Regional_Indicator code points of s
BetweenRIs(s, c) ==
    /\ 0 < c.offset /\ c.offset < c.len
    /\ Cat(s, pos_of(s, c.offset) - 1) = "GC_Regional_Indicator"
    /\ Cat(s, pos_of(s, c.offset)) = "GC_Regional_Indicator"

(***************************************************************************)
(* C26: for a fresh cursor between two Regional_Indicator code points and  *)
(* any chunking of the text, is_boundary with every PreContext request     *)
(* answered ends without a panic and returns Ok(true) iff the number of    *)
(* consecutive Regional_Indicators immediately before the offset is even.  *)
(***************************************************************************)
C26_RegionalParity ==
    (task = "is" /\ BetweenRIs(S, cur)) =>
        /\ pend \notin {"panic", "stuck"}
        /\ pend = "done" => res = Ok(ris_before(S, pos_of(S, cur.offset)) % 2 = 0)

(***************************************************************************)
(* C27: in every state any sequence of cursor operations reaches with no   *)
(* pre-context request pending, ris_count = Some(k) implies that exactly k *)
(* consecutive Regional_Indicator code points immediately precede the      *)
(* cursor offset.                                                          *)
(***************************************************************************)
C27_RisCountExact ==
    (cur.pre_context_offset = None /\ cur.ris_count # None) =>
        unwrap(cur.ris_count) = ris_before(S, pos_of(S, cur.offset))

\* the cursor lies between an Extend and an E_Modifier of s
ExtendThenModifier(s, c) ==
    /\ 0 < c.offset /\ c.offset < c.len
    /\ Cat(s, pos_of(s, c.offset) - 1) = "GC_Extend"
    /\ Cat(s, pos_of(s, c.offset)) = "GC_E_Modifier"

(***************************************************************************)
(* C28: for a cursor with an Extend before it and an E_Modifier after it   *)
(* and any chunking of the text, is_boundary with every PreContext request *)
(* answered ends without a panic and returns Ok(false) iff the first       *)
(* non-Extend code point left of the offset is an E_Base or an E_Base_GAZ; *)
(* it returns Ok(true) for any other category and at the start of text.    *)
(***************************************************************************)
C28_EmojiLookback ==
    (task = "is" /\ ExtendThenModifier(S, cur)) =>
        /\ pend \notin {"panic", "stuck"}
        /\ pend = "done" =>
              res = Ok(first_non_extend(S, pos_of(S, cur.offset) - 1)
                         \notin {"GC_E_Base", "GC_E_Base_GAZ"})

(***************************************************************************)
(* C29: in every state any sequence of cursor operations reaches,          *)
(* set_cursor included, a category cached in cat is the category of the    *)
(* code point that ends at the cursor offset, and a category cached in     *)
(* catb is the category of the code point that starts at the offset.       *)
(***************************************************************************)
C29_CachesDescribeNeighbours ==
    /\ cur.cat # None =>
          /\ cur.offset > 0
          /\ unwrap(cur.cat) = Cat(S, pos_of(S, cur.offset) - 1)
    /\ cur.catb # None =>
          /\ cur.offset < cur.len
          /\ unwrap(cur.catb) = Cat(S, pos_of(S, cur.offset))


(***************************************************************************)
(* One Graphemes iterator driven from both ends: next and next_back in any *)
(* order, until a call returns None.  front holds the slices next has      *)
(* yielded and back the slices next_back has yielded, each in the order    *)
(* yielded.                                                                *)
(***************************************************************************)
InitMixed ==
    /\ S \in CursorTexts
    /\ ext \in BOOLEAN
    /\ it = new_graphemes(S, ext)
    /\ drive = "both"
    /\ front = << >>
    /\ back = << >>
    /\ last = [op |-> "new", ret |-> None]
    /\ NoCursor

\* one call of Graphemes::next, whatever the calls before
MixedNext ==
    /\ drive = "both"
    /\ last.op = "new" \/ last.ret # None
    /\ \E r \in {next(it)} :
           /\ it' = r.g
           /\ front' = yielded(front, r)
           /\ last' = [op |-> "next", ret |-> r.ret]
    /\ UNCHANGED << S, ext, drive, back >>
    /\ UNCHANGED curvars

\* one call of Graphemes::next_back, whatever the calls before
MixedNextBack ==
    /\ drive = "both"
    /\ last.op = "new" \/ last.ret # None
    /\ \E r \in {next_back(it)} :
           /\ it' = r.g
           /\ back' = yielded(back, r)
           /\ last' = [op |-> "next_back", ret |-> r.ret]
    /\ UNCHANGED << S, ext, drive, front >>
    /\ UNCHANGED curvars

NextMixed == MixedNext \/ MixedNextBack

SpecMixed == InitMixed /\ [][NextMixed]_vars

\* Graphemes::as_str
as_str(g) == g.string

(***************************************************************************)
(* C30: after any interleaving of next and next_back on one iterator, the  *)
(* slices yielded from the front, then as_str(), then the slices yielded   *)
(* from the back in reverse order of yielding, concatenate to S; every     *)
(* slice yielded is non-empty, and a call returns None only when the       *)
(* remainder is empty.                                                     *)
(***************************************************************************)
C30_BothEndsPartition ==
    /\ Concat(front) \o as_str(it) \o Concat(Reverse(back)) = S
    /\ \A i \in 1..Len(front) : front[i] # << >>
    /\ \A i \in 1..Len(back) : back[i] # << >>
    /\ (last.op # "new" /\ last.ret = None) => as_str(it) = << >>

C30_Witness ==
    /\ drive = "both"
    /\ S = << "RI", "RI", "RI", "ANY" >>
    /\ front = << << "RI", "RI" >> >>
    /\ back = << << "ANY" >>, << "RI" >> >>
    /\ last = [op |-> "next", ret |-> None]


(***************************************************************************)
(* C31: after any interleaving of next and next_back, while the remaining  *)
(* slice is non-empty: a category cached in cat is the category of its     *)
(* first code point, a category cached in catb is the category of its last *)
(* code point, and regional_count_back = Some(k) means exactly k           *)
(* consecutive Regional_Indicators immediately precede its last code       *)
(* point.  A call of next that yields a slice leaves catb and              *)
(* regional_count_back cleared, and a call of next_back that yields a      *)
(* slice leaves cat cleared.                                               *)
(***************************************************************************)
C31_CachesDescribeEnds ==
    /\ as_str(it) # << >> =>
          /\ it.cat # None => unwrap(it.cat) = Cat(it.string, 1)
          /\ it.catb # None => unwrap(it.catb) = Cat(it.string, Len(it.string))
          /\ it.regional_count_back # None =>
                unwrap(it.regional_count_back) = ris_before(it.string, Len(it.string))
    /\ (last.op = "next" /\ last.ret # None) =>
          it.catb = None /\ it.regional_count_back = None
    /\ (last.op = "next_back" /\ last.ret # None) => it.cat = None

C31_Witness ==
    /\ drive = "both"
    /\ S = << "ANY", "RI", "RI", "RI" >>
    /\ front = << << "ANY" >> >>
    /\ back = << << "RI" >> >>
    /\ last.op = "next_back"
    /\ it.string = << "RI", "RI" >>
    /\ it.regional_count_back = Some(1)
    /\ it.catb = Some("GC_Regional_Indicator")


(***************************************************************************)
(* One boundary decision over a chunked text: is_boundary on a fresh       *)
(* cursor with the chunk that holds the offset, provide_context with the   *)
(* chunk that ends at k after every Err(PreContext(k)), and is_boundary    *)
(* again.  The caller keeps going until it has an answer.                  *)
(***************************************************************************)
MaxLookLen == 3

LookChars == {"RI", "EXT", "EM", "EB", "ANY"}

LookTexts == Texts(LookChars, MaxLookLen)

InitLookback ==
    /\ S \in LookTexts
    /\ ext \in BOOLEAN
    /\ NoIterator
    /\ cuts \in SUBSET (2..Len(S))
    /\ res = Ok(None)
    /\ outs = << >>
    /\ pend = "call"
    /\ task = "is"
    /\ \E p \in 1..Len(S) :
          /\ cur = new(byte_of(S, p), str_len(S), ext)
          /\ ck = chunk_of(S, cuts, p)

\* is_boundary on the chunk that holds the offset; an answer b is kept as Some(b)
LookbackIsBoundary ==
    /\ task = "is" /\ pend = "call"
    /\ \E b \in {is_boundary(cur, chunk_str(S, ck), chunk_start_of(S, ck))} :
          /\ pend' = IF b.r.kind = "Ok" THEN "done" ELSE pend_after(b.r)
          /\ cur' = b.c
          /\ res' = IF b.r.kind = "Ok" THEN Ok(Some(b.r.val)) ELSE b.r
    /\ UNCHANGED << S, ext, task, cuts, ck, outs >>
    /\ UNCHANGED itvars

NextLookback == LookbackIsBoundary \/ CallProvideContext

\* the caller makes its next call: a step of NextLookback is possible exactly
\* while a call is due, and every such step changes pend
CallerMoves ==
    /\ pend \in {"call", "provide"}
    /\ pend' \in {"call", "provide", "done", "panic", "stuck"} \ {pend}

SpecLookback == InitLookback /\ [][NextLookback]_vars /\ WF_pend(CallerMoves)

\* the cursor is in the middle of a lookback over the preceding chunks
InLookback == task = "is" /\ cur.state \in {"Regional", "Emoji"}

\* the start offset of the chunk that ends at offset k
provided_start(k) == chunk_start_of(S, chunk_of(S, cuts, pos_of(S, k) - 1))

\* a request made after provide_context names the start of the chunk provided
RequestShrinks ==
    (InLookback /\ Provided /\ res'.kind # "Ok") =>
        /\ res'.kind = "Err"
        /\ res'.val = PreContext(provided_start(res.val[2]))
        /\ 0 < res'.val[2] /\ res'.val[2] < res.val[2]

(***************************************************************************)
(* C32: during a boundary decision whose state is Regional or Emoji, every *)
(* Err(PreContext(k)) that follows a provide_context call names the start  *)
(* offset of the chunk just provided, which is smaller than the previous   *)
(* request and greater than 0; and the decision is always reached: the     *)
(* caller ends with an answer of is_boundary.                              *)
(***************************************************************************)
C32_LookbackTerminates ==
    /\ [][RequestShrinks]_pend
    /\ InLookback ~> (pend = "done" /\ res.kind = "Ok")

C32_Witness ==
    /\ S = << "RI", "RI", "RI" >>
    /\ cuts = {2, 3}
    /\ cur.offset = 8
    /\ cur.state = "Regional"
    /\ cur.ris_count = Some(1)
    /\ res = Err(PreContext(4))


\* a call on a non-empty remainder returns a non-empty slice and leaves less
Shrinks(g, r) ==
    /\ r.ret # None
    /\ unwrap(r.ret) # << >>
    /\ str_len(r.g.string) < str_len(g.string)
    /\ str_len(r.g.string) + str_len(unwrap(r.ret)) = str_len(g.string)

(***************************************************************************)
(* C33: in every state an interleaving of next and next_back reaches,      *)
(* while the remainder is non-empty neither loop ends in an unreachable!() *)
(* arm, and next and next_back each return a non-empty slice and leave a   *)
(* strictly shorter remainder; at most len(S) slices are yielded in all,   *)
(* and on the empty remainder both calls return None.                      *)
(***************************************************************************)
C33_IterationTerminates ==
    /\ as_str(it) # << >> =>
          /\ next_locals(it).state # "unreachable"
          /\ next_back_vars(it).state # "unreachable"
          /\ Shrinks(it, next(it))
          /\ Shrinks(it, next_back(it))
    /\ as_str(it) = << >> => next(it).ret = None /\ next_back(it).ret = None
    /\ Len(front) + Len(back) <= str_len(S)
    /\ Len(front) + Len(back) + str_len(as_str(it)) <= str_len(S)

C33_Witness ==
    /\ drive = "both"
    /\ S = << "EB", "EXT", "EM" >>
    /\ ext
    /\ front = << >>
    /\ back = << << "EB", "EXT", "EM" >> >>
    /\ last = [op |-> "next", ret |-> None]


RECURSIVE scan(_, _)
\* the SentenceBreaks iterator over s when its loop has taken n code points
scan(s, n) == IF n = 0 THEN new_sentence_breaks(s) ELSE breaks_step(scan(s, n - 1)).sb

RECURSIVE breaks_from(_)
\* the positions SentenceBreaks::next yields from sb on, until None
breaks_from(sb) ==
    LET r == breaks_next(sb)
    IN  IF r.ret = None THEN << >> ELSE << unwrap(r.ret) >> \o breaks_from(r.sb)

\* s without its code point at position p
without(s, p) == SubSeq(s, 1, p - 1) \o SubSeq(s, p + 1, Len(s))

\* the positions q of without(s, p) as positions of s
with(q, s, p) ==
    [i \in 1..Len(q) |-> IF q[i] >= byte_of(s, p) THEN q[i] + len_utf8(s[p]) ELSE q[i]]

\* position p holds an Extend or Format that follows neither the start of the
\* text nor a Sep, CR or LF in the window
Transparent(s, p) ==
    /\ sentence_category(s[p]) \in {"SC_Extend", "SC_Format"}
    /\ scan(s, p - 1).state[4] \notin {"Sot", "Sep", "CR", "LF"}

(***************************************************************************)
(* C34: an Extend or Format code point whose preceding window part is not  *)
(* Sot, Sep, CR or LF gives no break before it and leaves the window as it *)
(* was, only pos advancing; and the positions SentenceBreaks::next yields  *)
(* over the text are those it yields over the text without that code       *)
(* point.                                                                  *)
(***************************************************************************)
C34_ExtendFormatTransparent ==
    \A p \in 1..Len(S) :
        Transparent(S, p) =>
            /\ breaks_step(scan(S, p - 1)).rule = "restore"
            /\ scan(S, p).state = scan(S, p - 1).state
            /\ scan(S, p).pos = scan(S, p - 1).pos + len_utf8(S[p])
            /\ breaks_from(new_sentence_breaks(S))
                  = with(breaks_from(new_sentence_breaks(without(S, p))), S, p)
            /\ (drive = "breaks" /\ last.op = "next" /\ last.ret = None) =>
                  front = with(breaks_from(new_sentence_breaks(without(S, p))), S, p)

C34_Witness ==
    /\ drive = "breaks"
    /\ S = << "DOT", "EXT", "SP", "UP" >>
    /\ front = << 0, 4, 5 >>
    /\ last.ret = None
    /\ it.state = << "ATerm", "SpPlus", "UpperLower", "Eot" >>


(***************************************************************************)
(* The loop of SentenceBreaks::next taken one code point at a time: it is  *)
(* the iterator, front the rule outcome of every code point so far.        *)
(***************************************************************************)
MaxWinLen == 4

\* the code points of the left contexts of SB3 to SB11, and Extend
WindowChars == {"DOT", "BANG", "CLOSE", "SP", "CR", "LF", "UP", "EXT"}

WindowTexts == Texts(WindowChars, MaxWinLen)

InitWindow ==
    /\ S \in WindowTexts
    /\ ext = FALSE
    /\ it = new_sentence_breaks(S)
    /\ drive = "window"
    /\ front = << >>
    /\ back = << >>
    /\ last = [op |-> "new", ret |-> None]
    /\ NoCursor

\* one iteration of the loop of SentenceBreaks::next
WindowStep ==
    /\ drive = "window"
    /\ it.pos < str_len(it.string)
    /\ \E s \in {breaks_step(it)} :
           /\ it' = s.sb
           /\ front' = Append(front, s.rule)
           /\ last' = [op |-> "step", ret |-> Some(s.rule)]
    /\ UNCHANGED << S, ext, drive, back >>
    /\ UNCHANGED curvars

NextWindow == WindowStep

SpecWindow == InitWindow /\ [][NextWindow]_vars

ParaSep == {"SC_Sep", "SC_CR", "SC_LF"}

SATerm == {"SC_STerm", "SC_ATerm"}

RECURSIVE history(_, _)
\* the categories of the first n code points of s, without the Extend and
\* Format that follow something other than a ParaSep
history(s, n) ==
    IF n = 0 THEN << >>
    ELSE LET h == history(s, n - 1)
             c == sentence_category(s[n])
         IN  IF c \in {"SC_Extend", "SC_Format"} /\ h # << >> /\ h[Len(h)] \notin ParaSep
             THEN h
             ELSE Append(h, c)

RECURSIVE skip_back(_, _, _)
\* the length of h[1..n] once a trailing run of category c is taken off
skip_back(h, n, c) == IF n > 0 /\ h[n] = c THEN skip_back(h, n - 1, c) ELSE n

\* h[1..n] ends in one of the categories A
ends_in(h, n, A) == n > 0 /\ h[n] \in A

\* h ends in (Upper | Lower) ATerm
UpperLowerATerm(h) ==
    /\ ends_in(h, Len(h), {"SC_ATerm"})
    /\ ends_in(h, Len(h) - 1, {"SC_Upper", "SC_Lower"})

\* h ends in A Close* Sp*
CloseSp(h, n, A) == ends_in(h, skip_back(h, skip_back(h, n, "SC_Sp"), "SC_Close"), A)

\* h ends in SATerm Close*
SATermClose(h) == ends_in(h, skip_back(h, Len(h), "SC_Close"), SATerm)

\* h ends in SATerm Close* Sp* ParaSep?
SATermCloseSpParaSep(h) ==
    CloseSp(h, IF ends_in(h, Len(h), ParaSep) THEN Len(h) - 1 ELSE Len(h), SATerm)

\* the rules SB1 to SB998 on the history h, the category ncat that follows and
\* the text ahead from that code point on
history_rule(h, ncat, ahead) ==
    IF h = << >> THEN "return"                                           \* SB1
    ELSE IF ncat = "SC_LF" /\ ends_in(h, Len(h), {"SC_CR"}) THEN "continue"
    ELSE IF ends_in(h, Len(h), ParaSep) THEN "return"                    \* SB4
    ELSE IF ncat \in {"SC_Extend", "SC_Format"} THEN "restore"           \* SB5
    ELSE IF ncat = "SC_Numeric" /\ ends_in(h, Len(h), {"SC_ATerm"})
         THEN "continue"                                                 \* SB6
    ELSE IF ncat = "SC_Upper" /\ UpperLowerATerm(h) THEN "continue"      \* SB7
    ELSE IF CloseSp(h, Len(h), {"SC_ATerm"}) /\ sb8_ahead(ahead, 1)
         THEN "continue"                                                 \* SB8
    ELSE IF ncat \in {"SC_SContinue", "SC_STerm", "SC_ATerm"}
            /\ CloseSp(h, Len(h), SATerm) THEN "continue"                \* SB8a
    ELSE IF ncat \in {"SC_Close", "SC_Sp", "SC_Sep", "SC_CR", "SC_LF"}
            /\ SATermClose(h) THEN "continue"                            \* SB9
    ELSE IF ncat \in {"SC_Sp", "SC_Sep", "SC_CR", "SC_LF"}
            /\ CloseSp(h, Len(h), SATerm) THEN "continue"                \* SB10
    ELSE IF SATermCloseSpParaSep(h) THEN "return"                        \* SB11
    ELSE "continue"                                                      \* SB998

\* the text ahead when code point c follows the first n code points of S
AheadWith(c, n) == << c >> \o SubSeq(S, n + 2, Len(S))

(***************************************************************************)
(* C35: after any number of code points, the window holds no two adjacent  *)
(* ClosePlus and no two adjacent SpPlus parts; the window predicates of    *)
(* SB6 to SB11 hold exactly when their left-context patterns match the     *)
(* whole history of categories with the transparent Extend and Format      *)
(* removed; and the rule outcome, for every code point taken so far and    *)
(* for every code point that could follow, is the outcome the patterns     *)
(* give on the history.                                                    *)
(***************************************************************************)
C35_WindowMatchesHistory ==
    LET n == Len(front)
        h == history(S, n)
        w == it.state
    IN  /\ \A i \in 1..3 : w[i] \in {"ClosePlus", "SpPlus"} => w[i] # w[i + 1]
        /\ match1(w, "ATerm") <=> ends_in(h, Len(h), {"SC_ATerm"})
        /\ match2(w, "UpperLower", "ATerm") <=> UpperLowerATerm(h)
        /\ w[before_close_sp(w)] = "ATerm" <=> CloseSp(h, Len(h), {"SC_ATerm"})
        /\ match_sb8a(w) <=> CloseSp(h, Len(h), SATerm)
        /\ match_sb9(w) <=> SATermClose(h)
        /\ match_sb11(w) <=> SATermCloseSpParaSep(h)
        /\ \A i \in 1..n :
              front[i] = history_rule(history(S, i - 1), sentence_category(S[i]),
                                      SubSeq(S, i, Len(S)))
        /\ \A c \in SentenceChars :
              sb_rule(w, sentence_category(c), AheadWith(c, n))
                 = history_rule(h, sentence_category(c), AheadWith(c, n))

C35_Witness ==
    /\ drive = "window"
    /\ S = << "DOT", "CLOSE", "CLOSE", "SP" >>
    /\ front = << "return", "continue", "continue", "continue" >>
    /\ it.state = << "Sot", "ATerm", "ClosePlus", "SpPlus" >>

=============================================================================
